---- MODULE Spec2Model ----
(***************************************************************************)
(* The connection-establishment dispatcher of wreq (src/connect.rs):       *)
(* ConnectorBuilder, Connector, ConnectorService, with_timeout and the     *)
(* uniform connection handle Conn.                                         *)
(*                                                                         *)
(* A connector is built once (Init applies the builder's setters and       *)
(* build()), then attempts are started with Call and advance one await     *)
(* point at a time.  The collaborators that live outside src/ (the proxy   *)
(* matcher, the transport connector, the CONNECT and SOCKS negotiators,    *)
(* the TLS connector) answer nondeterministically, at a time the           *)
(* environment chooses.  Time exists only as the countdown of the timers   *)
(* the code arms; Tick lets one unit of it pass.  The build is the one     *)
(* with the "socks" feature enabled (connect_socks exists only there).     *)
(***************************************************************************)
EXTENDS Integers, Sequences, FiniteSets, TLC

\* ------------------------------------------------------------------ bounds
MaxRules == 2          \* rules in the proxy matcher set
MaxAddrs == 2          \* addresses a name resolves to
MaxLayers == 2         \* user middleware layers
MaxTimeout == 2        \* the configured connect timeout, in ticks
MaxIo == 1             \* reads, and unflushed writes, on a connection handle

\* --------------------------------------------------------------- constants
NoTimer == -1          \* Option<Duration>::None, and a timer that is not armed
NoHost == "none"       \* uri.host() == None
NoScheme == "none"

DstSchemes == {"http", "https"}
SocksSchemes == {"socks4", "socks4a", "socks5", "socks5h"}
ProxySchemes == {"http", "https"} \cup SocksSchemes
OriginHost == "origin.test"
DstHosts == {OriginHost, NoHost}

\* What a TLS handshake settles: the ALPN protocol selected (if any) and the
\* certificate the peer presented (if any), known here by the host presenting it.
NoAlpn == "none"
Alpns == {"h2", "http/1.1", NoAlpn}
NoCert == [subject |-> NoHost]
Cert(h) == [subject |-> h]
NoSession == [alpn |-> NoAlpn, peer_certificate |-> NoCert]
Sessions(h) ==
    {[alpn |-> al, peer_certificate |-> c] : al \in Alpns, c \in {NoCert, Cert(h)}}
\* X509::to_der: the DER bytes of a certificate
to_der(c) == <<"der", c.subject>>
\* Option<tls::TlsInfo>
NoTlsInfo == <<>>
TlsInfo(der) == <<"peer_certificate", der>>

\* proxy::Intercepted: the proxy URI, basic auth, custom headers
NoProxy == [scheme |-> NoScheme, host |-> NoHost, auth |-> FALSE, headers |-> FALSE]
Proxy(s, h, a, hd) == [scheme |-> s, host |-> h, auth |-> a, headers |-> hd]
\* the interception a per-request override attaches to the destination
OverrideProxies == {Proxy(s, "p0.test", TRUE, FALSE) : s \in ProxySchemes}
\* the interception rule i of the matcher set produces
RuleProxies(i) ==
    IF i = 1 THEN {Proxy(s, "p1.test", FALSE, TRUE) : s \in ProxySchemes}
    ELSE {Proxy(s, "p2.test", FALSE, FALSE) : s \in {"http", "socks5"}}
ProxyHosts == {"p0.test", "p1.test", "p2.test"}

\* core::client::Dst: the target URI and the optional pre-resolved interception
Uri(s, h) == [scheme |-> s, host |-> h]
Dst(u, p) == [uri |-> u, proxy_intercepted |-> p]
Dsts ==
    {Dst(Uri(s, h), p) : s \in DstSchemes, h \in DstHosts,
                         p \in {NoProxy} \cup OverrideProxies}

\* proxy::Matcher, reduced to the destination schemes its predicate accepts
Matcher(on, p) == [on |-> on, proxy |-> p]
intercept(m, uri) == IF uri.scheme \in m.on THEN m.proxy ELSE NoProxy

\* -------------------------------------------------------------- the builder
\* Connector::builder(proxies, resolver)
builder(proxies) ==
    [http |-> [nodelay |-> FALSE, connect_timeout |-> NoTimer],
     proxies |-> proxies, verbose |-> FALSE, timeout |-> NoTimer,
     nodelay |-> FALSE, tls_info |-> FALSE]

\* ConnectorBuilder::connect_timeout: the same duration goes to the overall
\* race and to the transport connector's own connect timeout
connect_timeout(b, timeout) ==
    [b EXCEPT !.timeout = timeout, !.http.connect_timeout = timeout]

\* ConnectorBuilder::nodelay
nodelay(b, enabled) == [b EXCEPT !.nodelay = enabled, !.http.nodelay = enabled]

\* ConnectorBuilder::verbose
verbose(b, enabled) == [b EXCEPT !.verbose = enabled]

\* ConnectorBuilder::tls_info
tls_info(b, enabled) == [b EXCEPT !.tls_info = enabled]

\* The layers argument of build(): Option<Vec<BoxedConnectorLayer>>.  A user
\* layer is known by what it does with a request: it hands it on at once
\* ("pass"), holds it for LayerDelay ticks before handing it on ("delay"), or
\* answers with an error of its own ("fail").
LayerKinds == {"pass", "delay", "fail"}
LayerDelay == 1
NoLayers == [some |-> FALSE, list |-> <<>>]
SomeLayers(l) == [some |-> TRUE, list |-> l]

\* the layered shape with the timeout in the base service and in the layer
build_both_timeouts(b, layers) ==
    [shape |-> IF layers.some THEN "WithLayers" ELSE "Simple",
     service |-> [http |-> b.http, proxies |-> b.proxies, verbose |-> b.verbose,
                  timeout |-> b.timeout, nodelay |-> b.nodelay,
                  tls_info |-> b.tls_info],
     layers |-> layers.list,
     outer |-> IF layers.some THEN b.timeout ELSE NoTimer]
\* the layered shape with the timeout left inside the base service
build_timeout_in_base(b, layers) ==
    [shape |-> IF layers.some THEN "WithLayers" ELSE "Simple",
     service |-> [http |-> b.http, proxies |-> b.proxies, verbose |-> b.verbose,
                  timeout |-> b.timeout, nodelay |-> b.nodelay,
                  tls_info |-> b.tls_info],
     layers |-> layers.list, outer |-> NoTimer]
\* ConnectorBuilder::build
build(b, layers) ==
    LET service == [http |-> b.http, proxies |-> b.proxies,
                    verbose |-> b.verbose, timeout |-> NoTimer,
                    nodelay |-> b.nodelay, tls_info |-> b.tls_info]
    IN  IF layers.some
        THEN [shape |-> "WithLayers", service |-> service,
              layers |-> layers.list, outer |-> b.timeout]
        ELSE [shape |-> "Simple",
              service |-> [service EXCEPT !.timeout = b.timeout],
              layers |-> <<>>, outer |-> NoTimer]

\* ------------------------------------------- Http2ConfigBuilder (http2.rs)
MaxCalls == 3          \* setter calls chained on one Http2ConfigBuilder

None == -1             \* Option::None of a numeric option
\* A usize (64 bits) is written as its four 16-bit limbs, the most significant
\* first; a u32 has the upper two zero.
LimbMax == 65535
Usize(l3, l2, l1, l0) == <<l3, l2, l1, l0>>
U32Max == Usize(0, 0, LimbMax, LimbMax)          \* u32::MAX as usize
RECURSIVE LimbsLe(_, _)
LimbsLe(x, y) ==
    IF x = <<>> THEN TRUE
    ELSE IF Head(x) # Head(y) THEN Head(x) < Head(y)
    ELSE LimbsLe(Tail(x), Tail(y))
\* Some(bool) of an Option<bool> field
SomeBool(b) == IF b THEN 1 ELSE 0

\* proto::h2: the constants behind the configuration's defaults
SPEC_WINDOW_SIZE == 65535
DEFAULT_CONN_WINDOW == 5242880
DEFAULT_STREAM_WINDOW == 2097152
DEFAULT_MAX_FRAME_SIZE == 16384
DEFAULT_MAX_SEND_BUF_SIZE == Usize(0, 0, 16, 0)   \* 1024 * 1024
DEFAULT_INITIAL_MAX_SEND_STREAMS == 100

\* proto::h2::client::Config::default()
Config_default ==
    [adaptive_window |-> FALSE,
     initial_conn_window_size |-> DEFAULT_CONN_WINDOW,
     initial_stream_window_size |-> DEFAULT_STREAM_WINDOW,
     initial_max_send_streams |-> DEFAULT_INITIAL_MAX_SEND_STREAMS,
     initial_stream_id |-> None,
     max_frame_size |-> DEFAULT_MAX_FRAME_SIZE,
     max_header_list_size |-> None,
     header_table_size |-> None,
     max_concurrent_streams |-> None,
     enable_push |-> None,
     enable_connect_protocol |-> None,
     no_rfc7540_priorities |-> None,
     max_concurrent_reset_streams |-> None,
     max_send_buffer_size |-> DEFAULT_MAX_SEND_BUF_SIZE,
     max_pending_accept_reset_streams |-> None,
     headers_stream_dependency |-> None,
     headers_pseudo_order |-> None,
     experimental_settings |-> None,
     settings_order |-> None,
     priorities |-> None]

\* Http2Config::builder().  panicked: a setter's assert! failed and the builder,
\* moved into the call, was dropped by the unwinding.
Http2Config_builder == [config |-> Config_default, panicked |-> FALSE]

\* the size overwritten by whatever the argument is, None included
initial_stream_window_size_assign(b, sz) ==
    [b EXCEPT !.config.adaptive_window = FALSE,
              !.config.initial_stream_window_size = sz]
\* Http2ConfigBuilder::initial_stream_window_size
initial_stream_window_size(b, sz) ==
    IF sz # None
    THEN [b EXCEPT !.config.adaptive_window = FALSE,
                   !.config.initial_stream_window_size = sz]
    ELSE b

\* the connection window stored with the adaptive flag left as it is
initial_connection_window_size_flag_kept(b, sz) ==
    IF sz # None
    THEN [b EXCEPT !.config.initial_conn_window_size = sz]
    ELSE b
\* Http2ConfigBuilder::initial_connection_window_size
initial_connection_window_size(b, sz) ==
    IF sz # None
    THEN [b EXCEPT !.config.adaptive_window = FALSE,
                   !.config.initial_conn_window_size = sz]
    ELSE b

\* Http2ConfigBuilder::initial_max_send_streams
initial_max_send_streams(b, initial) ==
    IF initial # None
    THEN [b EXCEPT !.config.initial_max_send_streams = initial]
    ELSE b

\* the flag set and the window sizes left as they are
adaptive_window_flag_only(b, enabled) ==
    [b EXCEPT !.config.adaptive_window = enabled]
\* Http2ConfigBuilder::adaptive_window
adaptive_window(b, enabled) ==
    IF enabled
    THEN [b EXCEPT !.config.adaptive_window = enabled,
                   !.config.initial_conn_window_size = SPEC_WINDOW_SIZE,
                   !.config.initial_stream_window_size = SPEC_WINDOW_SIZE]
    ELSE [b EXCEPT !.config.adaptive_window = enabled]

\* the size stored as a u32 without the assertion: the value wraps
max_send_buf_size_truncating(b, max) ==
    [b EXCEPT !.config.max_send_buffer_size = Usize(0, 0, max[3], max[4])]
\* Http2ConfigBuilder::max_send_buf_size: assert!(max <= u32::MAX as usize)
max_send_buf_size(b, max) ==
    IF LimbsLe(max, U32Max)
    THEN [b EXCEPT !.config.max_send_buffer_size = max]
    ELSE [b EXCEPT !.panicked = TRUE]

\* The builder as the caller holds it.  built: build() returned the
\* configuration.  Bookkeeping the code does not hold: calls (setters called),
\* last (the latest call and its argument: a bool written as SomeBool, a
\* usize as its place in BufSizes),
\* enabled (adaptive_window(true) was called at some point), later (a call
\* made after the latest adaptive_window(true) wrote the flag or a window
\* size), sized (a window-size setter was given Some(size) at some point).
NewBuilder ==
    [builder |-> Http2Config_builder, built |-> FALSE, calls |-> 0,
     last |-> [op |-> "builder", arg |-> None],
     enabled |-> FALSE, later |-> FALSE, sized |-> FALSE]

\* ------------------------------------------------------------------- state
VARIABLES
    connector,   \* the Connector build() returned, shared by every attempt
    att,         \* att[a]: the future Connector::call returned for attempt a
    ready,       \* what Connector::poll_ready answered when last polled
    h2,          \* an Http2ConfigBuilder and the calls made on it
    twin         \* a second Connector built from the same configuration
                 \* (other), and whether it is owed a step the first took

vars == <<connector, att, ready, h2, twin>>

\* no second connector was built
NoTwin == [other |-> "none", owed |-> FALSE]

\* the futures the caller holds, or has room for
Attempts == DOMAIN att

NoSock == [peer |-> NoHost, nodelay |-> FALSE]
\* the bytes moved through a handle: reads done, writes not yet flushed, and
\* whether the write side was shut down
NoIo == [rd |-> 0, wr |-> 0, shut |-> FALSE]
\* The output of the future.  For a handle: inner ("tcp" or "tls"), wraps (the
\* concrete stream boxed into Conn.inner: "tcp" TokioIo<TcpStream>, "maybe"
\* MaybeHttpsStream::Http, "tls_tcp" BoringTlsConn over the TCP stream,
\* "tls_maybe" BoringTlsConn over the MaybeHttpsStream a tunnel returned),
\* session (of the handle's TLS stream), under (of the TLS session with an
\* https proxy beneath a tunnel), verbose (boxed inside a Verbose wrapper).
NoResult ==
    [kind |-> "none", err |-> "none", cause |-> "none", phase |-> "none",
     inner |-> "none", peer |-> NoHost, is_proxy |-> FALSE, tls_info |-> FALSE,
     sni |-> NoHost, tunnel |-> "no", proxy_tls |-> FALSE, nodelay |-> FALSE,
     verbose |-> FALSE, wraps |-> "none", session |-> NoSession,
     under |-> NoSession, io |-> NoIo]

\* An attempt nobody has called yet.  dst is the destination as submitted, uri
\* the URI of the attempt's own Dst (connect_via_proxy may overwrite it).
\* session and under are the TLS sessions established so far (with the peer the
\* handle will talk to, and with an https proxy beneath a tunnel).
\* open: the future owns a connected socket (sock then says which).
\* Bookkeeping the code does not hold: evals (matcher rules asked), seen (the
\* user layers the request went through), age (ticks since Connector::call),
\* seq_age (ticks since ConnectorService::call, NoTimer before it).
IdleAttempt ==
    [pc |-> "idle", dst |-> Dst(Uri(NoScheme, NoHost), NoProxy),
     uri |-> Uri(NoScheme, NoHost), via |-> NoProxy, evals |-> 0,
     branch |-> "none", is_proxy |-> FALSE, layer |-> 0, seen |-> <<>>,
     target |-> NoHost, naddrs |-> 0, addrs |-> 0, http_nodelay |-> FALSE, sock |-> NoSock,
     tls_to |-> "none", tls_host |-> NoHost, proxy_tls |-> FALSE,
     tunnelled |-> "no", svc_left |-> NoTimer, tow_left |-> NoTimer,
     addr_left |-> NoTimer, nap_left |-> NoTimer, age |-> 0, seq_age |-> NoTimer,
     session |-> NoSession, under |-> NoSession, open |-> FALSE,
     result |-> NoResult]

\* error::map_timeout_to_connector_error: tower's Elapsed becomes TimedOut
map_timeout_to_connector_error(e) == IF e = "Elapsed" THEN "TimedOut" ELSE e

\* What the caller of Connector::call sees of an error the base service, a user
\* layer or a timer produced: the layered shape ends in map_err (build()).
Surface(e) ==
    IF connector.shape = "WithLayers" THEN map_timeout_to_connector_error(e)
    ELSE e

\* a failed step of a proxied attempt answered by a direct connection to the
\* destination instead of the error
Fail_fallback_direct(r, e, cause) ==
    IF cause = "net" /\ r.branch \in {"forward", "connect", "socks"}
    THEN [r EXCEPT !.pc = "resolve", !.branch = "direct", !.is_proxy = FALSE,
                   !.uri = r.dst.uri, !.target = r.dst.uri.host,
                   !.addr_left = NoTimer, !.open = FALSE]
    ELSE [r EXCEPT !.pc = "done", !.addr_left = NoTimer, !.nap_left = NoTimer,
                   !.open = FALSE,
                   !.result = [NoResult EXCEPT !.kind = "err", !.err = Surface(e),
                                               !.cause = cause, !.phase = r.pc]]
\* The future resolves to Err(e) and what it owned is dropped.  cause: "net" (a collaborator answered),
\* "timer" (the overall timeout elapsed), "conn_timer" (the transport
\* connector's own connect timeout elapsed), "sync" (decided without waiting).
Fail(r, e, cause) ==
    [r EXCEPT !.pc = "done", !.addr_left = NoTimer, !.nap_left = NoTimer,
              !.open = FALSE,
              !.result = [NoResult EXCEPT !.kind = "err", !.err = Surface(e),
                                          !.cause = cause, !.phase = r.pc]]

\* The future resolves to Ok(Conn { inner, is_proxy, tls_info }): the socket
\* moves into the handle.
Succeed(r, inner, is_proxy, info) ==
    [r EXCEPT !.pc = "done", !.addr_left = NoTimer, !.nap_left = NoTimer,
              !.open = FALSE,
              !.result = [NoResult EXCEPT
                  !.kind = "conn", !.cause = "net", !.phase = r.pc,
                  !.inner = inner, !.peer = r.sock.peer,
                  !.is_proxy = is_proxy, !.tls_info = info,
                  !.sni = IF inner = "tls" THEN r.tls_host ELSE NoHost,
                  !.tunnel = r.tunnelled, !.proxy_tls = r.proxy_tls,
                  !.nodelay = r.sock.nodelay,
                  !.verbose = connector.service.verbose,
                  !.wraps = CASE inner = "tcp" /\ r.branch = "socks" -> "tcp"
                              [] inner = "tcp" -> "maybe"
                              [] r.branch = "connect" -> "tls_maybe"
                              [] OTHER -> "tls_tcp",
                  !.session = IF inner = "tls" THEN r.session ELSE NoSession,
                  !.under = r.under]]

\* ------------------------------------------------ ConnectorService::call
\* the loop without its early return: the last rule that intercepts wins
RECURSIVE scan_last_match(_, _, _)
scan_last_match(proxies, uri, asked) ==
    IF proxies = <<>> THEN [hit |-> NoProxy, evals |-> asked]
    ELSE LET i == intercept(Head(proxies), uri)
             rest == scan_last_match(Tail(proxies), uri, asked + 1)
         IN  IF rest.hit # NoProxy \/ i = NoProxy THEN rest
             ELSE [hit |-> i, evals |-> rest.evals]
\* for prox in self.proxies.iter(): the first rule that intercepts wins.
\* hit: the interception; evals: how many rules were asked.
RECURSIVE scan(_, _, _)
scan(proxies, uri, asked) ==
    IF proxies = <<>> THEN [hit |-> NoProxy, evals |-> asked]
    ELSE LET i == intercept(Head(proxies), uri)
         IN  IF i # NoProxy THEN [hit |-> i, evals |-> asked + 1]
             ELSE scan(Tail(proxies), uri, asked + 1)

\* the matcher set asked first, the pre-resolved interception as a fallback
pick_proxy_rules_first(service, dst) ==
    LET m == scan(service.proxies, dst.uri, 0)
    IN  IF m.hit # NoProxy \/ dst.proxy_intercepted = NoProxy THEN m
        ELSE [hit |-> dst.proxy_intercepted, evals |-> m.evals]
\* dst.take_proxy_intercepted(), else the scan of the matcher set
pick_proxy(service, dst) ==
    IF dst.proxy_intercepted # NoProxy
    THEN [hit |-> dst.proxy_intercepted, evals |-> 0]
    ELSE scan(service.proxies, dst.uri, 0)

\* the future awaited without a timer, whatever the timeout
with_timeout_unarmed(r, timeout) == r
\* with_timeout(f, timeout), first poll: tokio::time::timeout arms its timer
with_timeout(r, timeout) == [r EXCEPT !.svc_left = timeout]

\* HttpConnector::call(uri): start connecting a plain transport to uri's host
\* with this clone's nodelay setting; a URI without a host fails at once.
BeginTransport(r, host, nd) ==
    IF host = NoHost THEN Fail(r, "connect", "sync")
    ELSE [r EXCEPT !.pc = "resolve", !.target = host, !.http_nodelay = nd]

\* the transport connector used as configured, also for a TLS handshake
connect_with_maybe_proxy_nagle_kept(r, is_proxy) ==
    BeginTransport([r EXCEPT !.is_proxy = is_proxy,
                             !.branch = IF is_proxy THEN "forward" ELSE "direct"],
                   r.uri.host, connector.service.http.nodelay)
\* connect_with_maybe_proxy, up to `http.call(uri).await`
connect_with_maybe_proxy(r, is_proxy) ==
    LET service == connector.service
        nd == IF ~service.nodelay /\ r.uri.scheme = "https" THEN TRUE
              ELSE service.http.nodelay
    IN  BeginTransport([r EXCEPT !.is_proxy = is_proxy,
                                 !.branch = IF is_proxy THEN "forward"
                                            ELSE "direct"],
                       r.uri.host, nd)

\* connect_socks, up to `socks.call(uri).await`: Socks connects a plain
\* transport to the proxy
connect_socks(r, proxy) ==
    BeginTransport([r EXCEPT !.branch = "socks"], proxy.host,
                   connector.service.http.nodelay)

\* the HTTP-proxy branches kept for the schemes http and https, every other
\* proxy scheme handed to connect_socks
connect_via_proxy_socks_unless_http(r, proxy) ==
    IF proxy.scheme \notin {"http", "https"} THEN connect_socks(r, proxy)
    ELSE IF r.uri.scheme = "https"
    THEN IF r.uri.host = NoHost THEN Fail([r EXCEPT !.branch = "connect"],
                                          "bad_host", "sync")
         ELSE BeginTransport([r EXCEPT !.branch = "connect"], proxy.host,
                             connector.service.http.nodelay)
    ELSE connect_with_maybe_proxy(
             [r EXCEPT !.uri = Uri(proxy.scheme, proxy.host)], TRUE)
\* the plaintext-proxy branch without dst.set_uri(proxy_dst)
connect_via_proxy_no_rewrite(r, proxy) ==
    IF proxy.scheme \in SocksSchemes THEN connect_socks(r, proxy)
    ELSE IF r.uri.scheme = "https"
    THEN IF r.uri.host = NoHost THEN Fail([r EXCEPT !.branch = "connect"],
                                          "bad_host", "sync")
         ELSE BeginTransport([r EXCEPT !.branch = "connect"], proxy.host,
                             connector.service.http.nodelay)
    ELSE connect_with_maybe_proxy(r, TRUE)
\* the CONNECT branch contacting the proxy before it looks at the host
connect_via_proxy_tunnel_first(r, proxy) ==
    IF proxy.scheme \in SocksSchemes THEN connect_socks(r, proxy)
    ELSE IF r.uri.scheme = "https"
    THEN BeginTransport([r EXCEPT !.branch = "connect"], proxy.host,
                        connector.service.http.nodelay)
    ELSE connect_with_maybe_proxy(
             [r EXCEPT !.uri = Uri(proxy.scheme, proxy.host)], TRUE)
\* connect_via_proxy, up to its first await
connect_via_proxy(r, proxy) ==
    IF proxy.scheme \in SocksSchemes THEN connect_socks(r, proxy)
    ELSE IF r.uri.scheme = "https"
    THEN \* let host = uri.host().ok_or(Error::uri_bad_host())?;
         IF r.uri.host = NoHost THEN Fail([r EXCEPT !.branch = "connect"],
                                          "bad_host", "sync")
         ELSE \* tunnel.call(uri): Tunnel connects to proxy_dst
              BeginTransport([r EXCEPT !.branch = "connect"], proxy.host,
                             connector.service.http.nodelay)
    ELSE \* dst.set_uri(proxy_dst); connect_with_maybe_proxy(dst, true)
         connect_with_maybe_proxy(
             [r EXCEPT !.uri = Uri(proxy.scheme, proxy.host)], TRUE)

\* the direct path entered with the proxy-form flag set
call_direct_flag_set(r, dst) ==
    LET service == connector.service
        p == pick_proxy(service, dst)
        r1 == with_timeout([r EXCEPT !.uri = dst.uri, !.via = p.hit,
                                     !.evals = p.evals, !.seq_age = 0],
                           service.timeout)
    IN  IF p.hit # NoProxy THEN connect_via_proxy(r1, p.hit)
        ELSE connect_with_maybe_proxy(r1, TRUE)
\* ConnectorService::call(dst) and the first poll of the future it returns
call(r, dst) ==
    LET service == connector.service
        p == pick_proxy(service, dst)
        r1 == with_timeout([r EXCEPT !.uri = dst.uri, !.via = p.hit,
                                     !.evals = p.evals, !.seq_age = 0],
                           service.timeout)
    IN  IF p.hit # NoProxy THEN connect_via_proxy(r1, p.hit)
        ELSE connect_with_maybe_proxy(r1, FALSE)

\* ---------------------------------------------------- Connector::call
\* the request unwrapped to a destination without its pre-resolved interception
RECURSIVE Descend_interception_lost(_, _)
Descend_interception_lost(r, i) ==
    IF i = 0 THEN call(r, Dst(r.dst.uri, NoProxy))
    ELSE LET r1 == [r EXCEPT !.seen = Append(r.seen, i)]
         IN  CASE connector.layers[i] = "pass" -> Descend_interception_lost(r1, i - 1)
               [] connector.layers[i] = "fail" ->
                      Fail([r1 EXCEPT !.pc = "layer", !.layer = i],
                           "layer", "sync")
               [] OTHER ->
                      [r1 EXCEPT !.pc = "layer", !.layer = i,
                                 !.nap_left = LayerDelay]
\* the user layers entered in the order supplied, the first supplied outermost
RECURSIVE Descend_first_outermost(_, _)
Descend_first_outermost(r, i) ==
    IF i = 0 THEN call(r, r.dst)
    ELSE LET j == Len(connector.layers) - i + 1
             r1 == [r EXCEPT !.seen = Append(r.seen, j)]
         IN  CASE connector.layers[j] = "pass" -> Descend_first_outermost(r1, i - 1)
               [] connector.layers[j] = "fail" ->
                      Fail([r1 EXCEPT !.pc = "layer", !.layer = i],
                           "layer", "sync")
               [] OTHER ->
                      [r1 EXCEPT !.pc = "layer", !.layer = i,
                                 !.nap_left = LayerDelay]
\* The layered service: a request goes down through the user layers, the last
\* supplied outermost (build() folds them over the base), to the base service
\* behind MapRequestLayer(|request: Unnameable| request.0).
RECURSIVE Descend(_, _)
Descend(r, i) ==
    IF i = 0 THEN call(r, r.dst)
    ELSE LET r1 == [r EXCEPT !.seen = Append(r.seen, i)]
         IN  CASE connector.layers[i] = "pass" -> Descend(r1, i - 1)
               [] connector.layers[i] = "fail" ->
                      Fail([r1 EXCEPT !.pc = "layer", !.layer = i],
                           "layer", "sync")
               [] OTHER ->
                      [r1 EXCEPT !.pc = "layer", !.layer = i,
                                 !.nap_left = LayerDelay]

\* Connector::call(dst), polled at once by its caller
connector_call(dst) ==
    LET r == [IdleAttempt EXCEPT !.dst = dst]
    IN  IF connector.shape = "Simple" THEN call(r, dst)
        ELSE \* TimeoutLayer (when configured) is outermost: its sleep starts
             Descend([r EXCEPT !.tow_left = connector.outer],
                     Len(connector.layers))

\* ------------------------------------------------- Connector::poll_ready
\* ConnectorService::poll_ready: Poll::Ready(Ok(()))
ConnectorService_poll_ready == "ready"

\* What the service a user layer produced does with a readiness check: it hands
\* the check to the service it wraps ("delegate"), or answers itself: not ready
\* yet ("pending", a limit it keeps is used up), or an error of its own ("layer").
LayerAnswers == {"delegate", "pending", "layer"}

\* The stack build() folds, polled from the outermost user layer (the last
\* supplied) down to the base service behind MapRequest.
RECURSIVE Layers_poll_ready(_, _)
Layers_poll_ready(answers, i) ==
    IF i = 0 THEN ConnectorService_poll_ready
    ELSE IF answers[i] = "delegate" THEN Layers_poll_ready(answers, i - 1)
    ELSE answers[i]

\* the layered shape answering for the base service alone
Connector_poll_ready_base_only(c, answers) == ConnectorService_poll_ready
\* Connector::poll_ready.  In the layered shape the boxed service is MapErr over
\* Timeout (when configured) over the user layers: MapErr and Timeout hand the
\* check down, MapErr passing an error through map_timeout_to_connector_error.
Connector_poll_ready(c, answers) ==
    IF c.shape = "Simple" THEN ConnectorService_poll_ready
    ELSE LET x == Layers_poll_ready(answers, Len(c.layers))
         IN  IF x \in {"ready", "pending"} THEN x
             ELSE map_timeout_to_connector_error(x)

\* Nobody has polled the connector yet.  layers: what each user layer's
\* service did with the latest check.
Unpolled == [answer |-> "unpolled", layers |-> <<>>]

\* ------------------------------------------- the awaits of the attempt
\* HttpConnector::set_connect_timeout: "If a domain resolves to multiple IP
\* addresses, the timeout will be evenly divided across them."
PerAddr(cto, n) == IF cto = NoTimer THEN NoTimer ELSE cto \div n

\* connect_with_maybe_proxy: Ok(Conn { inner, is_proxy, tls_info: self.tls_info })
maybe_proxy_conn(r, inner) ==
    Succeed(r, inner, r.is_proxy, connector.service.tls_info)

\* the tunnelled TLS stream tagged as proxy-form
tunnel_tls_conn_proxy_form(r) == Succeed(r, "tls", TRUE, connector.service.tls_info)
\* connect_via_proxy, tunnelled: Ok(Conn { .., is_proxy: false, tls_info: self.tls_info })
tunnel_tls_conn(r) == Succeed(r, "tls", FALSE, connector.service.tls_info)

\* connect_socks, https: Ok(Conn { .., is_proxy: false, tls_info: self.tls_info })
socks_tls_conn(r) == Succeed(r, "tls", FALSE, connector.service.tls_info)

\* the plain SOCKS stream tagged as proxy-form
socks_tcp_conn_proxy_form(r) == Succeed(r, "tcp", TRUE, FALSE)
\* connect_socks, plaintext: Conn { inner: tcp, is_proxy: false, tls_info: false }
socks_tcp_conn(r) == Succeed(r, "tcp", FALSE, FALSE)

\* the origin handshake started on the transport to the proxy, before CONNECT
AfterConnect_tls_before_tunnel(r0) ==
    LET r == [r0 EXCEPT !.sock = [peer |-> r0.target,
                                  nodelay |-> r0.http_nodelay],
                        !.open = TRUE, !.addr_left = NoTimer]
    IN  CASE r.branch \in {"direct", "forward"} ->
                 IF r.uri.scheme = "https"
                 THEN [r EXCEPT !.pc = "tls", !.tls_to = "uri",
                                !.tls_host = r.uri.host]
                 ELSE maybe_proxy_conn(r, "tcp")
          [] r.branch = "connect" ->
                 [r EXCEPT !.pc = "tls", !.tls_to = "origin",
                           !.tls_host = r.uri.host]
          [] OTHER -> [r EXCEPT !.pc = "tunnel"]

\* The plain transport is connected.  What follows depends on the branch.
AfterConnect(r0) ==
    LET r == [r0 EXCEPT !.sock = [peer |-> r0.target,
                                  nodelay |-> r0.http_nodelay],
                        !.open = TRUE, !.addr_left = NoTimer]
        service == connector.service
    IN  CASE r.branch \in {"direct", "forward"} ->
                 \* HttpsConnector::call: TLS when the URI's scheme is https
                 IF r.uri.scheme = "https"
                 THEN [r EXCEPT !.pc = "tls", !.tls_to = "uri",
                                !.tls_host = r.uri.host]
                 ELSE maybe_proxy_conn(r, "tcp")
          [] r.branch = "connect" ->
                 \* Tunnel reaches the proxy through the HttpsConnector: an
                 \* https proxy gets a TLS session of its own first
                 IF r.via.scheme = "https"
                 THEN [r EXCEPT !.pc = "tls", !.tls_to = "proxy",
                                !.tls_host = r.via.host]
                 ELSE [r EXCEPT !.pc = "tunnel"]
          [] OTHER -> [r EXCEPT !.pc = "tunnel"]

\* The address being tried gave no connection: the next one, or the error.
NextAddr(r, cause) ==
    IF r.addrs > 1
    THEN [r EXCEPT !.addrs = r.addrs - 1,
                   !.addr_left = PerAddr(connector.service.http.connect_timeout,
                                          r.naddrs)]
    ELSE Fail(r, "connect", cause)

\* the handshake over the CONNECT tunnel given the proxy's host
AfterTunnel_proxy_host(r0) ==
    LET r == [r0 EXCEPT !.tunnelled = "ok"]
    IN  IF r.branch = "connect"
        THEN [r EXCEPT !.pc = "tls", !.tls_to = "origin",
                       !.tls_host = r.via.host]
        ELSE IF r.uri.scheme = "https"
        THEN IF r.uri.host = NoHost THEN Fail(r, "bad_host", "sync")
             ELSE [r EXCEPT !.pc = "tls", !.tls_to = "origin",
                            !.tls_host = r.uri.host]
        ELSE socks_tcp_conn(r)
\* The CONNECT or SOCKS negotiation succeeded.
AfterTunnel(r0) ==
    LET r == [r0 EXCEPT !.tunnelled = "ok"]
        service == connector.service
    IN  IF r.branch = "connect"
        THEN \* http.connect(&uri, host, tunneled)
             [r EXCEPT !.pc = "tls", !.tls_to = "origin",
                       !.tls_host = r.uri.host]
        ELSE IF r.uri.scheme = "https"
        THEN \* let host = uri.host().ok_or(Error::uri_bad_host())?;
             IF r.uri.host = NoHost THEN Fail(r, "bad_host", "sync")
             ELSE [r EXCEPT !.pc = "tls", !.tls_to = "origin",
                            !.tls_host = r.uri.host]
        ELSE socks_tcp_conn(r)

\* the handle returned although set_nodelay(false) failed
AfterTls_restore_ignored(r, restore_ok) ==
    CASE r.tls_to = "proxy" -> [r EXCEPT !.pc = "tunnel", !.proxy_tls = TRUE]
      [] r.tls_to = "origin" ->
             IF r.branch = "connect" THEN tunnel_tls_conn(r)
             ELSE socks_tls_conn(r)
      [] OTHER ->
             IF ~connector.service.nodelay /\ restore_ok
             THEN maybe_proxy_conn([r EXCEPT !.sock.nodelay = FALSE], "tls")
             ELSE maybe_proxy_conn(r, "tls")
\* A TLS handshake succeeded.  restore_ok: whether set_nodelay(false) on the
\* socket, when connect_with_maybe_proxy calls it, succeeds.
AfterTls(r, restore_ok) ==
    LET service == connector.service
    IN  CASE r.tls_to = "proxy" -> [r EXCEPT !.pc = "tunnel", !.proxy_tls = TRUE]
          [] r.tls_to = "origin" ->
                 IF r.branch = "connect" THEN tunnel_tls_conn(r)
                 ELSE socks_tls_conn(r)
          [] OTHER ->
                 \* if !self.nodelay { ...set_nodelay(false)?; }
                 IF ~service.nodelay
                 THEN IF restore_ok
                      THEN maybe_proxy_conn([r EXCEPT !.sock.nodelay = FALSE],
                                            "tls")
                      ELSE Fail(r, "io", "net")
                 ELSE maybe_proxy_conn(r, "tls")

\* ------------------------------------------------- the connection handle
\* What the TCP stream at the bottom of every handle reports about itself.
TcpConnected == [proxy |-> FALSE, negotiated_h2 |-> FALSE, extra |-> NoTlsInfo]

\* MaybeHttpsStream::connected for the stream a CONNECT tunnel runs over:
\* the TCP stream's report, marked h2 when it is a TLS stream that selected h2
MaybeHttpsStream_connected(c) ==
    IF c.proxy_tls /\ c.under.alpn = "h2"
    THEN [TcpConnected EXCEPT !.negotiated_h2 = TRUE]
    ELSE TcpConnected

\* the h2 mark given only to handles that carry TLS info
BoringTlsConn_connected_with_tls_info(c) ==
    LET connected0 == IF c.wraps = "tls_maybe" THEN MaybeHttpsStream_connected(c)
                      ELSE TcpConnected
    IN  IF c.tls_info /\ c.session.alpn = "h2"
        THEN [connected0 EXCEPT !.negotiated_h2 = TRUE]
        ELSE connected0
\* Connection for BoringTlsConn<..>, both impls: the report of the stream under
\* the TLS session, marked negotiated_h2 when the session selected "h2"
BoringTlsConn_connected(c) ==
    LET connected0 == IF c.wraps = "tls_maybe" THEN MaybeHttpsStream_connected(c)
                      ELSE TcpConnected
    IN  IF c.session.alpn = "h2"
        THEN [connected0 EXCEPT !.negotiated_h2 = TRUE]
        ELSE connected0

\* Connection for Verbose<T>: self.inner.connected()
Verbose_connected(x) == x

\* self.inner.connected() of Conn: the boxed stream, inside Verbose when
\* verbose.wrap boxed it so
inner_connected(c) ==
    LET x == IF c.inner = "tls" THEN BoringTlsConn_connected(c) ELSE TcpConnected
    IN  IF c.verbose THEN Verbose_connected(x) ELSE x

\* TlsInfoFactory for SslStream<TokioIo<TokioIo<TcpStream>>>:
\* ssl().peer_certificate().and_then(to_der).map(TlsInfo)
SslStream_tls_info(sess) ==
    IF sess.peer_certificate = NoCert THEN NoTlsInfo
    ELSE TlsInfo(to_der(sess.peer_certificate))

\* self.inner.tls_info() of Conn, delegated through Verbose, BoringTlsConn and
\* TokioIo down to: the session of the SslStream over the TCP stream; for the
\* SslStream over a MaybeHttpsStream, the MaybeHttpsStream beneath it (its
\* session with an https proxy, None for its Http variant); None for TCP.
inner_tls_info(c) ==
    CASE c.wraps = "tls_tcp" -> SslStream_tls_info(c.session)
      [] c.wraps = "tls_maybe" ->
             IF c.proxy_tls THEN SslStream_tls_info(c.under) ELSE NoTlsInfo
      [] OTHER -> NoTlsInfo

\* the TLS info attached whatever the handle's tls_info flag
connected_flag_ignored(c) ==
    LET connected0 == [inner_connected(c) EXCEPT !.proxy = c.is_proxy]
    IN  IF inner_tls_info(c) # NoTlsInfo
        THEN [connected0 EXCEPT !.extra = inner_tls_info(c)]
        ELSE connected0
\* the transport's own proxy indication left in place
connected_transport_proxy(c) ==
    LET connected0 == inner_connected(c)
    IN  IF c.tls_info /\ inner_tls_info(c) # NoTlsInfo
        THEN [connected0 EXCEPT !.extra = inner_tls_info(c)]
        ELSE connected0
\* Connection for Conn: connected()
connected(c) ==
    LET connected0 == [inner_connected(c) EXCEPT !.proxy = c.is_proxy]
    IN  IF c.tls_info
        THEN IF inner_tls_info(c) # NoTlsInfo
             THEN [connected0 EXCEPT !.extra = inner_tls_info(c)]
             ELSE connected0
        ELSE connected0

\* ----------------------------------------------------------------- actions
Active(r) == r.pc \notin {"idle", "done"}

\* The attempt's own future can make progress because one of its timers is
\* due: tokio's and tower's Timeout poll the wrapped future before their sleep.
ConnectTimerDue(r) == r.pc = "connect" /\ r.addr_left = 0
NapDue(r) == r.pc = "layer" /\ r.nap_left = 0

\* the nodelay override for the TLS handshake written to the connector's own
\* transport connector, not to the clone the future holds
Call_override_shared(a, dst) ==
    /\ att[a].pc \in {"idle", "done"}
    /\ att' = [att EXCEPT ![a] = connector_call(dst)]
    /\ connector' = [connector EXCEPT !.service.http.nodelay =
                                          @ \/ connector_call(dst).http_nodelay]
    /\ UNCHANGED <<ready, h2, twin>>
\* Connector::call(dst) on a slot that is free
Call(a, dst) ==
    /\ att[a].pc \in {"idle", "done"}
    /\ att' = [att EXCEPT ![a] = connector_call(dst)]
    /\ UNCHANGED <<connector, ready, h2, twin>>

\* A delaying user layer hands the request on.
LayerForward(a) ==
    /\ NapDue(att[a])
    /\ att' = [att EXCEPT ![a] = Descend([att[a] EXCEPT !.nap_left = NoTimer],
                                         att[a].layer - 1)]
    /\ UNCHANGED <<connector, ready, h2, twin>>

\* The resolver answers: n addresses, or an error.
Resolved(a) ==
    /\ att[a].pc = "resolve"
    /\ \/ \E n \in 1..MaxAddrs :
              att' = [att EXCEPT ![a] =
                        [att[a] EXCEPT
                            !.pc = "connect", !.naddrs = n, !.addrs = n,
                            !.addr_left =
                                PerAddr(connector.service.http.connect_timeout, n)]]
       \/ att' = [att EXCEPT ![a] = Fail(att[a], "dns", "net")]
    /\ UNCHANGED <<connector, ready, h2, twin>>

\* The address being tried accepts the connection.
Connected(a) ==
    /\ att[a].pc = "connect"
    /\ att' = [att EXCEPT ![a] = AfterConnect(att[a])]
    /\ UNCHANGED <<connector, ready, h2, twin>>

\* The address being tried refuses the connection.
ConnectRefused(a) ==
    /\ att[a].pc = "connect"
    /\ att' = [att EXCEPT ![a] = NextAddr(att[a], "net")]
    /\ UNCHANGED <<connector, ready, h2, twin>>

\* The transport connector's own connect timeout elapses for the address.
ConnectTimedOut(a) ==
    /\ ConnectTimerDue(att[a])
    /\ att' = [att EXCEPT ![a] = NextAddr(att[a], "conn_timer")]
    /\ UNCHANGED <<connector, ready, h2, twin>>

\* The proxy answers the CONNECT request or the SOCKS handshake.  Tunnel
\* writes an HTTP/1.1 CONNECT request: a proxy whose TLS session selected h2
\* does not answer it with success.
TunnelDone(a) ==
    /\ att[a].pc = "tunnel"
    /\ \/ /\ att[a].under.alpn # "h2"
          /\ att' = [att EXCEPT ![a] = AfterTunnel(att[a])]
       \/ att' = [att EXCEPT ![a] =
                    Fail([att[a] EXCEPT !.tunnelled = "failed"], "tunnel", "net")]
    /\ UNCHANGED <<connector, ready, h2, twin>>

\* The session a successful handshake leaves behind.
Handshaken(r, sess) ==
    IF r.tls_to = "proxy" THEN [r EXCEPT !.under = sess]
    ELSE [r EXCEPT !.session = sess]

\* A TLS handshake ends.
TlsDone(a) ==
    /\ att[a].pc = "tls"
    /\ \/ \E restore_ok \in BOOLEAN, sess \in Sessions(att[a].tls_host) :
              att' = [att EXCEPT ![a] =
                        AfterTls(Handshaken(att[a], sess), restore_ok)]
       \/ att' = [att EXCEPT ![a] = Fail(att[a], "tls", "net")]
    /\ UNCHANGED <<connector, ready, h2, twin>>

\* the Timeout error reported with the attempt left running
TimeoutElapsed_detached(a) ==
    /\ Active(att[a])
    /\ att[a].svc_left = 0
    /\ ~ConnectTimerDue(att[a])
    /\ att' = [att EXCEPT ![a] =
                 [att[a] EXCEPT !.svc_left = NoTimer,
                     !.result = [NoResult EXCEPT !.kind = "err", !.err = "TimedOut",
                                                 !.cause = "timer",
                                                 !.phase = att[a].pc]]]
    /\ UNCHANGED <<connector, ready, h2, twin>>
\* one timer for the whole connector: its elapse ends every attempt in flight
TimeoutElapsed_shared_timer(a) ==
    /\ Active(att[a])
    /\ att[a].svc_left = 0
    /\ ~ConnectTimerDue(att[a])
    /\ att' = [b \in Attempts |->
                 IF Active(att[b]) THEN Fail(att[b], "TimedOut", "timer")
                 ELSE att[b]]
    /\ UNCHANGED <<connector, ready, h2, twin>>
\* with_timeout: Err(_elapsed) => Err(Box::new(TimedOut))
TimeoutElapsed(a) ==
    /\ Active(att[a])
    /\ att[a].svc_left = 0
    /\ ~ConnectTimerDue(att[a])
    /\ att' = [att EXCEPT ![a] = Fail(att[a], "TimedOut", "timer")]
    /\ UNCHANGED <<connector, ready, h2, twin>>

\* The TimeoutLayer build() puts outermost elapses: tower's Elapsed.
LayerTimeoutElapsed(a) ==
    /\ Active(att[a])
    /\ att[a].tow_left = 0
    /\ att[a].svc_left # 0
    /\ ~ConnectTimerDue(att[a])
    /\ ~NapDue(att[a])
    /\ att' = [att EXCEPT ![a] = Fail(att[a], "Elapsed", "timer")]
    /\ UNCHANGED <<connector, ready, h2, twin>>

\* Read, Write for Conn: every poll is handed to the boxed stream.
HasConn(r) == r.pc = "done" /\ r.result.kind = "conn"

poll_read(a) ==
    /\ HasConn(att[a])
    /\ att[a].result.io.rd < MaxIo
    /\ att' = [att EXCEPT ![a].result.io.rd = @ + 1]
    /\ UNCHANGED <<connector, ready, h2, twin>>

poll_write(a) ==
    /\ HasConn(att[a])
    /\ ~att[a].result.io.shut
    /\ att[a].result.io.wr < MaxIo
    /\ att' = [att EXCEPT ![a].result.io.wr = @ + 1]
    /\ UNCHANGED <<connector, ready, h2, twin>>

poll_flush(a) ==
    /\ HasConn(att[a])
    /\ att[a].result.io.wr > 0
    /\ att' = [att EXCEPT ![a].result.io.wr = 0]
    /\ UNCHANGED <<connector, ready, h2, twin>>

poll_shutdown(a) ==
    /\ HasConn(att[a])
    /\ ~att[a].result.io.shut
    /\ att' = [att EXCEPT ![a].result.io.shut = TRUE]
    /\ UNCHANGED <<connector, ready, h2, twin>>

\* poll_ready(cx) on the connector, with what the user layers' services do
\* with the check at that moment.
PollReady ==
    /\ \E answers \in [1..Len(connector.layers) -> LayerAnswers] :
           ready' = [answer |-> Connector_poll_ready(connector, answers),
                     layers |-> answers]
    /\ UNCHANGED <<connector, att, h2, twin>>

\* The caller drops the future of an attempt that is still in flight: all it
\* owned goes with it.
Cancel(a) ==
    /\ Active(att[a])
    /\ att' = [att EXCEPT ![a] = IdleAttempt]
    /\ UNCHANGED <<connector, ready, h2, twin>>

\* ------------------------------------------- Http2ConfigBuilder, the calls
OptSizes == {None, 1, SPEC_WINDOW_SIZE}
Opts == {None, 1}
\* the arguments tried for max_send_buf_size: 0, 65536, u32::MAX,
\* u32::MAX + 1, 2^32 + 65536 and usize::MAX
BufSizes ==
    <<Usize(0, 0, 0, 0), Usize(0, 0, 1, 0), U32Max, Usize(0, 1, 0, 0),
      Usize(0, 1, 1, 0), Usize(LimbMax, LimbMax, LimbMax, LimbMax)>>

\* One call on the builder the caller holds.  wrote: the call assigned the
\* adaptive_window flag or a window size.
Chain(op, arg, b, wrote) ==
    /\ ~h2.built
    /\ ~h2.builder.panicked
    /\ h2.calls < MaxCalls
    /\ h2' = [h2 EXCEPT
                !.builder = b, !.calls = @ + 1,
                !.last = [op |-> op, arg |-> arg],
                !.enabled = @ \/ (op = "adaptive_window" /\ arg = 1),
                !.later = IF op = "adaptive_window" /\ arg = 1 THEN FALSE
                          ELSE @ \/ (h2.enabled /\ wrote),
                !.sized = @ \/ (op # "adaptive_window" /\ wrote)]
    /\ UNCHANGED <<connector, att, ready, twin>>

Set_initial_stream_window_size ==
    \E sz \in OptSizes :
        Chain("initial_stream_window_size", sz,
              initial_stream_window_size(h2.builder, sz), sz # None)
Set_initial_connection_window_size ==
    \E sz \in OptSizes :
        Chain("initial_connection_window_size", sz,
              initial_connection_window_size(h2.builder, sz), sz # None)
Set_initial_max_send_streams ==
    \E initial \in Opts :
        Chain("initial_max_send_streams", initial,
              initial_max_send_streams(h2.builder, initial), FALSE)
\* Http2ConfigBuilder::initial_stream_id
Set_initial_stream_id ==
    \E id \in Opts :
        Chain("initial_stream_id", id,
              [h2.builder EXCEPT !.config.initial_stream_id = id], FALSE)
Set_adaptive_window ==
    \E enabled \in BOOLEAN :
        Chain("adaptive_window", SomeBool(enabled),
              adaptive_window(h2.builder, enabled), TRUE)
\* Http2ConfigBuilder::max_frame_size
Set_max_frame_size ==
    \E sz \in Opts :
        Chain("max_frame_size", sz,
              [h2.builder EXCEPT !.config.max_frame_size = sz], FALSE)
\* Http2ConfigBuilder::max_header_list_size
Set_max_header_list_size ==
    Chain("max_header_list_size", 1,
          [h2.builder EXCEPT !.config.max_header_list_size = 1], FALSE)
\* Http2ConfigBuilder::header_table_size
Set_header_table_size ==
    \E size \in Opts :
        Chain("header_table_size", size,
              [h2.builder EXCEPT !.config.header_table_size = size], FALSE)
\* Http2ConfigBuilder::max_concurrent_streams
Set_max_concurrent_streams ==
    \E max \in Opts :
        Chain("max_concurrent_streams", max,
              [h2.builder EXCEPT !.config.max_concurrent_streams = max], FALSE)
\* Http2ConfigBuilder::enable_push
Set_enable_push ==
    \E opt \in BOOLEAN :
        Chain("enable_push", SomeBool(opt),
              [h2.builder EXCEPT !.config.enable_push = SomeBool(opt)], FALSE)
\* Http2ConfigBuilder::enable_connect_protocol
Set_enable_connect_protocol ==
    \E opt \in BOOLEAN :
        Chain("enable_connect_protocol", SomeBool(opt),
              [h2.builder EXCEPT !.config.enable_connect_protocol = SomeBool(opt)], FALSE)
\* Http2ConfigBuilder::no_rfc7540_priorities
Set_no_rfc7540_priorities ==
    \E opt \in BOOLEAN :
        Chain("no_rfc7540_priorities", SomeBool(opt),
              [h2.builder EXCEPT !.config.no_rfc7540_priorities = SomeBool(opt)], FALSE)
\* Http2ConfigBuilder::max_concurrent_reset_streams
Set_max_concurrent_reset_streams ==
    Chain("max_concurrent_reset_streams", 1,
          [h2.builder EXCEPT !.config.max_concurrent_reset_streams = 1], FALSE)
Set_max_send_buf_size ==
    \E i \in 1..Len(BufSizes) :
        Chain("max_send_buf_size", i,
              max_send_buf_size(h2.builder, BufSizes[i]), FALSE)
\* Http2ConfigBuilder::max_pending_accept_reset_streams
Set_max_pending_accept_reset_streams ==
    \E max \in Opts :
        Chain("max_pending_accept_reset_streams", max,
              [h2.builder EXCEPT !.config.max_pending_accept_reset_streams = max], FALSE)
\* Http2ConfigBuilder::headers_stream_dependency
Set_headers_stream_dependency ==
    \E d \in Opts :
        Chain("headers_stream_dependency", d,
              [h2.builder EXCEPT !.config.headers_stream_dependency = d], FALSE)
\* Http2ConfigBuilder::headers_pseudo_order
Set_headers_pseudo_order ==
    \E o \in Opts :
        Chain("headers_pseudo_order", o,
              [h2.builder EXCEPT !.config.headers_pseudo_order = o], FALSE)
\* Http2ConfigBuilder::experimental_settings
Set_experimental_settings ==
    \E e \in Opts :
        Chain("experimental_settings", e,
              [h2.builder EXCEPT !.config.experimental_settings = e], FALSE)
\* Http2ConfigBuilder::settings_order
Set_settings_order ==
    \E o \in Opts :
        Chain("settings_order", o,
              [h2.builder EXCEPT !.config.settings_order = o], FALSE)
\* Http2ConfigBuilder::priorities
Set_priorities ==
    \E l \in Opts :
        Chain("priorities", l,
              [h2.builder EXCEPT !.config.priorities = l], FALSE)

\* Http2ConfigBuilder::build: the configuration as the setters left it
Http2ConfigBuilder_build ==
    /\ ~h2.built
    /\ ~h2.builder.panicked
    /\ h2' = [h2 EXCEPT !.built = TRUE, !.last = [op |-> "build", arg |-> None]]
    /\ UNCHANGED <<connector, att, ready, twin>>

\* One unit of time passes.  A timer that is due fires before time moves on.
Armed(r) ==
    Active(r) /\ (r.svc_left # NoTimer \/ r.tow_left # NoTimer
                  \/ (r.pc = "connect" /\ r.addr_left # NoTimer)
                  \/ r.pc = "layer")
Due(r) ==
    Active(r) /\ (r.svc_left = 0 \/ r.tow_left = 0 \/ ConnectTimerDue(r)
                  \/ NapDue(r))
Dec(t) == IF t = NoTimer THEN NoTimer ELSE t - 1
\* what one unit of time does to a future
Elapse(r) ==
    IF Active(r)
    THEN [r EXCEPT !.svc_left = Dec(@), !.tow_left = Dec(@),
                   !.addr_left = Dec(@), !.nap_left = Dec(@),
                   !.age = @ + 1, !.seq_age = IF @ = NoTimer THEN @ ELSE @ + 1]
    ELSE r
Tick ==
    /\ \E a \in Attempts : Armed(att[a])
    /\ \A a \in Attempts : ~Due(att[a])
    /\ att' = [a \in Attempts |-> Elapse(att[a])]
    /\ UNCHANGED <<connector, ready, h2, twin>>

\* ------------------------------------------------------------ specification
RECURSIVE RuleListsOfLen(_)
RuleListsOfLen(k) ==
    IF k = 0 THEN {<<>>}
    ELSE {Append(l, Matcher(on, p)) :
            l \in RuleListsOfLen(k - 1),
            on \in (IF k = 1 THEN {{"http"}, {"https"}, {"http", "https"}}
                    ELSE {{"http", "https"}}),
            p \in RuleProxies(k)}
RuleLists == UNION {RuleListsOfLen(k) : k \in 0..MaxRules}
FewRuleLists == {<<>>, <<Matcher({"http", "https"}, Proxy("http", "p1.test", FALSE, TRUE))>>}

RECURSIVE LayerListsOfLen(_)
LayerListsOfLen(k) ==
    IF k = 0 THEN {<<>>}
    ELSE {Append(l, x) : l \in LayerListsOfLen(k - 1), x \in LayerKinds}
LayerArgs ==
    {NoLayers} \cup {SomeLayers(l) : l \in UNION {LayerListsOfLen(k) : k \in 0..MaxLayers}}
Timeouts == {NoTimer} \cup 1..MaxTimeout

\* The connectors the builder produces.  Every setting is varied in full,
\* against a few values of the others: the matcher set with the defaults, the
\* timeout and the layers with two matcher sets, the flags with two matcher
\* sets.
Configured(rules, t, nd, ti, vb, layers) ==
    build(verbose(tls_info(nodelay(connect_timeout(builder(rules), t), nd), ti), vb),
          layers)
Connectors ==
    {Configured(rules, NoTimer, FALSE, FALSE, FALSE, NoLayers) : rules \in RuleLists}
    \cup {Configured(rules, t, FALSE, FALSE, FALSE, l) :
            rules \in FewRuleLists, t \in Timeouts, l \in LayerArgs}
    \cup {Configured(rules, NoTimer, nd, ti, vb, NoLayers) :
            rules \in FewRuleLists, nd \in BOOLEAN, ti \in BOOLEAN, vb \in BOOLEAN}

\* one future at a time
Single == {1}

Init ==
    /\ connector \in Connectors
    /\ att = [a \in Single |-> IdleAttempt]
    /\ ready = Unpolled
    /\ h2 = NewBuilder
    /\ twin = NoTwin

\* the steps of the attempts in flight
Progress ==
    \/ \E a \in Attempts : LayerForward(a)
    \/ \E a \in Attempts : Resolved(a)
    \/ \E a \in Attempts : Connected(a)
    \/ \E a \in Attempts : ConnectRefused(a)
    \/ \E a \in Attempts : ConnectTimedOut(a)
    \/ \E a \in Attempts : TunnelDone(a)
    \/ \E a \in Attempts : TlsDone(a)
    \/ \E a \in Attempts : TimeoutElapsed(a)
    \/ \E a \in Attempts : LayerTimeoutElapsed(a)
    \/ Tick

Next ==
    \/ \E a \in Attempts, dst \in Dsts : Call(a, dst)
    \/ Progress

Spec == Init /\ [][Next]_vars

\* The same connectors with the handles they return put to use: the caller
\* reads, writes, flushes and shuts down a connection it was given.  The
\* timeout, the flags and the layers are varied together here, each over fewer
\* values.
IoConnectors ==
    {Configured(rules, t, FALSE, ti, vb, l) :
        rules \in FewRuleLists, t \in {NoTimer, 1}, ti \in BOOLEAN,
        vb \in BOOLEAN, l \in {NoLayers, SomeLayers(<<"delay">>)}}

InitIo ==
    /\ connector \in IoConnectors
    /\ att = [a \in Single |-> IdleAttempt]
    /\ ready = Unpolled
    /\ h2 = NewBuilder
    /\ twin = NoTwin

NextIo ==
    \/ Next
    \/ \E a \in Attempts : poll_read(a)
    \/ \E a \in Attempts : poll_write(a)
    \/ \E a \in Attempts : poll_flush(a)
    \/ \E a \in Attempts : poll_shutdown(a)

SpecIo == InitIo /\ [][NextIo]_vars

\* The connector polled for readiness between and during calls.
ReadyConnectors ==
    {Configured(<<>>, t, FALSE, FALSE, FALSE, l) :
        t \in {NoTimer, 1},
        l \in {NoLayers} \cup {SomeLayers(x) :
                 x \in {<<>>, <<"pass">>, <<"fail">>, <<"delay", "pass">>}}}

InitReady ==
    /\ connector \in ReadyConnectors
    /\ att = [a \in Single |-> IdleAttempt]
    /\ ready = Unpolled
    /\ h2 = NewBuilder
    /\ twin = NoTwin

NextReady ==
    \/ Next
    \/ PollReady

SpecReady == InitReady /\ [][NextReady]_vars

\* Two futures of one connector in flight at a time, each of which the caller
\* may drop.
Pair == {1, 2}
PairConnectors ==
    {Configured(<<>>, 1, FALSE, FALSE, FALSE, l) :
        l \in {NoLayers, SomeLayers(<<"delay">>)}}
PairDsts ==
    {Dst(Uri("https", OriginHost), NoProxy),
     Dst(Uri("http", OriginHost), Proxy("http", "p0.test", TRUE, FALSE)),
     Dst(Uri("https", OriginHost), Proxy("http", "p0.test", TRUE, FALSE))}

InitPair ==
    /\ connector \in PairConnectors
    /\ att = [a \in Pair |-> IdleAttempt]
    /\ ready = Unpolled
    /\ h2 = NewBuilder
    /\ twin = NoTwin

NextPair ==
    \/ \E a \in Attempts, dst \in PairDsts : Call(a, dst)
    \/ \E a \in Attempts : Cancel(a)
    \/ Progress

SpecPair == InitPair /\ [][NextPair]_vars

\* Proxies of every scheme, the known ones and others.
UnknownSchemes == {"ftp", NoScheme}
AnySchemeProxies(h) ==
    {Proxy(s, h, FALSE, FALSE) : s \in ProxySchemes \cup UnknownSchemes}
SchemeConnectors ==
    {Configured(rules, t, FALSE, FALSE, FALSE, l) :
        rules \in {<<>>} \cup {<<Matcher({"http", "https"}, p)>> :
                                 p \in AnySchemeProxies("p1.test")},
        t \in {NoTimer, 1}, l \in {NoLayers, SomeLayers(<<"delay">>)}}
SchemeDsts ==
    {Dst(Uri(s, h), p) :
        s \in DstSchemes, h \in DstHosts,
        p \in {NoProxy} \cup AnySchemeProxies("p0.test")}

InitSchemes ==
    /\ connector \in SchemeConnectors
    /\ att = [a \in Single |-> IdleAttempt]
    /\ ready = Unpolled
    /\ h2 = NewBuilder
    /\ twin = NoTwin

NextSchemes ==
    \/ \E a \in Attempts, dst \in SchemeDsts : Call(a, dst)
    \/ Progress

SpecSchemes == InitSchemes /\ [][NextSchemes]_vars

\* The connector under a runtime whose clock advances and whose timers wake
\* the future they belong to: time passes unless a timer is due, and a timer
\* that is due fires (the overall race, the outer TimeoutLayer, the transport
\* connector's connect timeout, a user layer's own delay).  Nothing is assumed
\* of the resolver, the transport, the proxy or the TLS peer: they may never
\* answer.
LiveConnectors ==
    {Configured(rules, t, FALSE, FALSE, FALSE, l) :
        rules \in FewRuleLists, t \in Timeouts,
        l \in {NoLayers, SomeLayers(<<"pass">>), SomeLayers(<<"delay">>)}}

InitLive ==
    /\ connector \in LiveConnectors
    /\ att = [a \in Single |-> IdleAttempt]
    /\ ready = Unpolled
    /\ h2 = NewBuilder
    /\ twin = NoTwin

TimerFairness ==
    /\ WF_vars(Tick)
    /\ \A a \in Single :
          /\ WF_vars(TimeoutElapsed(a))
          /\ WF_vars(LayerTimeoutElapsed(a))
          /\ WF_vars(ConnectTimedOut(a))
          /\ WF_vars(LayerForward(a))

SpecLive == InitLive /\ [][Next]_vars /\ TimerFairness

\* An Http2ConfigBuilder taken from Http2Config::builder() and chained.
InitH2 ==
    /\ connector = Configured(<<>>, NoTimer, FALSE, FALSE, FALSE, NoLayers)
    /\ att = [a \in Single |-> IdleAttempt]
    /\ ready = Unpolled
    /\ h2 = NewBuilder
    /\ twin = NoTwin

NextH2 ==
    \/ Set_initial_stream_window_size
    \/ Set_initial_connection_window_size
    \/ Set_initial_max_send_streams
    \/ Set_initial_stream_id
    \/ Set_adaptive_window
    \/ Set_max_frame_size
    \/ Set_max_header_list_size
    \/ Set_header_table_size
    \/ Set_max_concurrent_streams
    \/ Set_enable_push
    \/ Set_enable_connect_protocol
    \/ Set_no_rfc7540_priorities
    \/ Set_max_concurrent_reset_streams
    \/ Set_max_send_buf_size
    \/ Set_max_pending_accept_reset_streams
    \/ Set_headers_stream_dependency
    \/ Set_headers_pseudo_order
    \/ Set_experimental_settings
    \/ Set_settings_order
    \/ Set_priorities
    \/ Http2ConfigBuilder_build

SpecH2 == InitH2 /\ [][NextH2]_vars

\* ------------------------------------------- two shapes, one configuration
\* build() called twice on the same configuration: once with user layers that
\* hand every request and every response on unchanged, once with no layers.
\* The two connectors are called side by side in one world: connector is the
\* one the next operation is on, twin.other the one that waits; attempt 1 is
\* the future of the layered connector, attempt 2 that of the direct one.
\* One side takes a step (a call, or an answer of the world), then the other
\* side is owed the same step (twin.owed) until it has taken it; time passes
\* for both together.
PassLists ==
    {l \in UNION {LayerListsOfLen(k) : k \in 0..MaxLayers} :
        \A i \in 1..Len(l) : l[i] = "pass"}
TwinConnectors ==
    {<<Configured(rules, t, FALSE, FALSE, FALSE, SomeLayers(l)),
       Configured(rules, t, FALSE, FALSE, FALSE, NoLayers)>> :
        rules \in FewRuleLists, t \in {NoTimer, 1}, l \in PassLists}
    \cup {<<Configured(<<>>, NoTimer, TRUE, TRUE, TRUE, SomeLayers(<<"pass">>)),
             Configured(<<>>, NoTimer, TRUE, TRUE, TRUE, NoLayers)>>}
TwinDsts ==
    {Dst(Uri("https", OriginHost), NoProxy),
     Dst(Uri("http", OriginHost), NoProxy),
     Dst(Uri("https", OriginHost), Proxy("http", "p0.test", TRUE, FALSE)),
     Dst(Uri("https", OriginHost), Proxy("socks5", "p0.test", TRUE, FALSE)),
     Dst(Uri("https", NoHost), Proxy("http", "p0.test", TRUE, FALSE)),
     Dst(Uri("https", NoHost), Proxy("socks5", "p0.test", TRUE, FALSE)),
     Dst(Uri("http", OriginHost), Proxy("https", "p0.test", TRUE, FALSE))}

InitTwin ==
    /\ \E p \in TwinConnectors :
          /\ connector = p[1]
          /\ twin = [other |-> p[2], owed |-> FALSE]
    /\ att = [a \in Pair |-> IdleAttempt]
    /\ ready = Unpolled
    /\ h2 = NewBuilder

\* the attempt that is a call on the connector in turn
Bound(a) == connector.shape = (IF a = 1 THEN "WithLayers" ELSE "Simple")

\* What the two futures have in common when they are at the same point: all
\* but where the one overall timer sits (TimeoutLayer or with_timeout) and the
\* layers the request went through.
View(r) == [r EXCEPT !.svc_left = NoTimer, !.tow_left = NoTimer, !.seen = <<>>]
Related(l, d) ==
    /\ View(l) = View(d)
    /\ l.tow_left = d.svc_left
    /\ l.svc_left = NoTimer
    /\ d.tow_left = NoTimer
InSync == Related(att[1], att[2])

\* one step of attempt a: a call, or an answer of the world
StepOf(a) ==
    \/ \E dst \in TwinDsts : Call(a, dst)
    \/ Resolved(a)
    \/ Connected(a)
    \/ ConnectRefused(a)
    \/ ConnectTimedOut(a)
    \/ TunnelDone(a)
    \/ TlsDone(a)
    \/ TimeoutElapsed(a)
    \/ LayerTimeoutElapsed(a)

\* either side goes first
Lead ==
    /\ InSync
    /\ ~twin.owed
    /\ \E a \in Pair : Bound(a) /\ StepOf(a)
\* the turn passes to the other connector, which is owed a step when the
\* first has taken one
Swap ==
    /\ ~twin.owed
    /\ connector' = twin.other
    /\ twin' = [other |-> connector, owed |-> ~InSync]
    /\ UNCHANGED <<att, ready, h2>>
\* the other side takes the same step in the same world
Follow ==
    /\ twin.owed
    /\ ~InSync
    /\ \E a \in Pair : Bound(a) /\ StepOf(a)
    /\ InSync'
Settle ==
    /\ twin.owed
    /\ InSync
    /\ twin' = [twin EXCEPT !.owed = FALSE]
    /\ UNCHANGED <<connector, att, ready, h2>>
TickBoth ==
    /\ InSync
    /\ ~twin.owed
    /\ Tick

NextTwin == Lead \/ Swap \/ Follow \/ Settle \/ TickBoth

SpecTwin == InitTwin /\ [][NextTwin]_vars

\* ------------------------------------------------------------------ claims
Rules == connector.service.proxies
\* the rules of the matcher set that intercept uri
Hits(uri) == {i \in 1..Len(Rules) : intercept(Rules[i], uri) # NoProxy}
\* ConnectorService::call has run for the attempt
Dispatched(r) == r.branch # "none"
GotConn(r) == r.pc = "done" /\ r.result.kind = "conn"
HttpKind(p) == p # NoProxy /\ p.scheme \notin SocksSchemes

\* C1: a destination without a pre-resolved interception that no rule of the
\* matcher set intercepts gets, on success, a connection with is_proxy = false,
\* for a plaintext and for an encrypted scheme.
C1_unproxied_not_proxy_form ==
    \A a \in Attempts :
        LET r == att[a]
        IN  (GotConn(r) /\ r.dst.proxy_intercepted = NoProxy
             /\ Hits(r.dst.uri) = {})
            => (r.result.is_proxy = FALSE /\ r.branch = "direct")

C1_witness ==
    \E a \in Attempts :
        /\ GotConn(att[a])
        /\ att[a].dst.proxy_intercepted = NoProxy
        /\ att[a].dst.uri.scheme = "https"
        /\ Rules # <<>>
        /\ Hits(att[a].dst.uri) = {}

\* C2: an HTTP-kind proxy intercepting a destination whose scheme is not https:
\* the attempt's URI is the proxy's URI before anything is connected, the
\* transport connects to the proxy's host and never to the origin's, and a
\* connection that results has is_proxy = true.
C2_forward_proxy_rewrites_uri ==
    \A a \in Attempts :
        LET r == att[a]
        IN  (Dispatched(r) /\ HttpKind(r.via) /\ r.dst.uri.scheme # "https")
            => /\ r.uri = Uri(r.via.scheme, r.via.host)
               /\ r.target \in {NoHost, r.via.host}
               /\ r.sock.peer \in {NoHost, r.via.host}
               /\ r.target # OriginHost /\ r.sock.peer # OriginHost
               /\ GotConn(r) => (r.result.is_proxy /\ r.result.peer = r.via.host)

C2_witness ==
    \E a \in Attempts :
        /\ GotConn(att[a])
        /\ att[a].via.scheme = "http"
        /\ att[a].dst.uri = Uri("http", OriginHost)
        /\ att[a].result.peer = att[a].via.host

\* C3: an HTTP-kind proxy intercepting an https destination: the TLS handshake
\* over the CONNECT tunnel is given the host of the destination URI, never the
\* proxy's, and a connection that results has is_proxy = false.
C3_connect_tunnel_origin_host ==
    \A a \in Attempts :
        LET r == att[a]
        IN  (Dispatched(r) /\ HttpKind(r.via) /\ r.dst.uri.scheme = "https")
            => /\ (r.pc = "tls" /\ r.tunnelled = "ok")
                    => (r.tls_host = r.dst.uri.host /\ r.tls_host # r.via.host)
               /\ GotConn(r)
                    => /\ r.result.is_proxy = FALSE
                       /\ r.result.inner = "tls"
                       /\ r.result.sni = r.dst.uri.host
                       /\ r.result.sni \notin ProxyHosts

C3_witness ==
    \E a \in Attempts :
        /\ GotConn(att[a])
        /\ att[a].via.scheme = "https"
        /\ att[a].dst.uri.scheme = "https"
        /\ att[a].result.tunnel = "ok"
        /\ att[a].result.proxy_tls

\* C4: a SOCKS proxy intercepting the destination: every connection that
\* results has is_proxy = false; for a plaintext destination it is the tunnel
\* stream itself, for an https destination TLS over the tunnel stream with the
\* origin's host as the verification target.
C4_socks_not_proxy_form ==
    \A a \in Attempts :
        LET r == att[a]
        IN  (Dispatched(r) /\ r.via.scheme \in SocksSchemes)
            => /\ r.pc = "tls" => (r.tunnelled = "ok" /\ r.tls_host = r.dst.uri.host)
               /\ GotConn(r)
                    => /\ r.result.is_proxy = FALSE
                       /\ r.result.tunnel = "ok"
                       /\ r.result.peer = r.via.host
                       /\ r.dst.uri.scheme # "https"
                            => (r.result.inner = "tcp" /\ r.result.proxy_tls = FALSE)
                       /\ r.dst.uri.scheme = "https"
                            => (r.result.inner = "tls"
                                /\ r.result.sni = r.dst.uri.host)

C4_witness ==
    \E a \in Attempts :
        /\ GotConn(att[a])
        /\ att[a].via.scheme = "socks4a"
        /\ att[a].dst.uri.scheme = "https"
        /\ att[a].result.sni = OriginHost

C6_preresolved_skips_matchers ==
    \A a \in Attempts :
        LET r == att[a]
        IN  (Dispatched(r) /\ r.dst.proxy_intercepted # NoProxy)
            => (r.via = r.dst.proxy_intercepted /\ r.evals = 0)

C6_witness ==
    \E a \in Attempts :
        /\ Dispatched(att[a])
        /\ att[a].dst.proxy_intercepted # NoProxy
        /\ \E i \in Hits(att[a].dst.uri) :
               intercept(Rules[i], att[a].dst.uri) # att[a].dst.proxy_intercepted

\* C7: without a pre-resolved interception the proxy used is the one of the
\* rule of least index that intercepts the destination URI, the rules after it
\* are not asked, and with no intercepting rule the direct path is taken.
FirstHit(uri) == CHOOSE i \in Hits(uri) : \A j \in Hits(uri) : i <= j
C7_first_matching_rule_wins ==
    \A a \in Attempts :
        LET r == att[a]
        IN  (Dispatched(r) /\ r.dst.proxy_intercepted = NoProxy)
            => IF Hits(r.dst.uri) = {}
               THEN r.via = NoProxy /\ r.branch = "direct"
                    /\ r.evals = Len(Rules)
               ELSE r.via = intercept(Rules[FirstHit(r.dst.uri)], r.dst.uri)
                    /\ r.evals = FirstHit(r.dst.uri)
                    /\ r.branch # "direct"

C7_witness ==
    \E a \in Attempts :
        /\ Dispatched(att[a])
        /\ att[a].dst.proxy_intercepted = NoProxy
        /\ Cardinality(Hits(att[a].dst.uri)) = 2
        /\ Rules[1].proxy # Rules[2].proxy
        /\ att[a].via = Rules[1].proxy

\* C8: in the CONNECT and the SOCKS branch the TLS handshake with the origin
\* starts only once the tunnel negotiation has succeeded; when the negotiation
\* fails no such handshake was started and the call ends in the tunnel error.
C8_tls_after_tunnel ==
    \A a \in Attempts :
        LET r == att[a]
        IN  (r.branch \in {"connect", "socks"})
            => /\ r.tls_to = "origin" => r.tunnelled = "ok"
               /\ (GotConn(r) /\ r.result.inner = "tls") => r.result.tunnel = "ok"
               /\ r.tunnelled = "failed"
                    => /\ r.tls_to # "origin"
                       /\ r.pc = "done"
                       /\ r.result.kind = "err" /\ r.result.err = "tunnel"

C8_witness ==
    \E a \in Attempts :
        /\ att[a].branch = "connect"
        /\ att[a].dst.uri.scheme = "https"
        /\ att[a].tunnelled = "failed"
        /\ att[a].pc = "done"

\* the connect timeout the connector was built with
ConfiguredTimeout ==
    IF connector.outer # NoTimer THEN connector.outer
    ELSE connector.service.timeout
\* every user layer hands requests on unchanged and at once
AllPass == \A i \in 1..Len(connector.layers) : connector.layers[i] = "pass"

\* C9: with a connect timeout T configured, an attempt whose transport connect
\* is still unanswered when T has passed ends in the TimedOut error, not in a
\* transport error, and gives no connection.
C9_slow_connect_times_out ==
    \A a \in Attempts :
        LET r == att[a]
        IN  (r.pc = "done" /\ ConfiguredTimeout # NoTimer
             /\ r.result.phase = "connect"
             /\ r.result.cause \in {"timer", "conn_timer"}
             /\ r.age = ConfiguredTimeout)
            => (r.result.kind = "err" /\ r.result.err = "TimedOut")

Rank(r) ==
    CASE r.pc = "resolve" -> 1
      [] r.pc = "connect" -> 2
      [] r.pc = "tls" /\ r.tls_to = "proxy" -> 3
      [] r.pc = "tunnel" -> 4
      [] r.pc = "tls" -> 5
      [] r.pc = "done" -> 6
      [] OTHER -> 0
\* the errors a step of the connect sequence fails with
StepErrors(pc) ==
    CASE pc = "resolve" -> {"dns"}
      [] pc = "connect" -> {"connect"}
      [] pc = "tunnel" -> {"tunnel", "bad_host"}
      [] pc = "tls" -> {"tls", "io"}
      [] OTHER -> {}

\* C11: once a proxy has intercepted the destination, every step of the attempt
\* keeps that proxy, its branch and the number of rules asked, and moves the
\* connect sequence forward only (the transport connector working through the
\* addresses of one resolution is one step); a step a collaborator fails ends
\* the call in that step's error: no step is repeated, no later rule is asked
\* and no direct connection is tried instead.
C11_no_retry_no_fallback ==
    [][\A a \in Attempts :
          LET r == att[a]
              s == att'[a]
          IN  (Active(r) /\ Dispatched(r) /\ r.via # NoProxy)
              => /\ s.via = r.via /\ s.branch = r.branch /\ s.evals = r.evals
                 /\ s.target = r.target
                 /\ Rank(s) >= Rank(r)
                 /\ Rank(s) = Rank(r) => (s.pc = r.pc /\ s.addrs <= r.addrs)
                 /\ (s.pc = "done" /\ s.result.kind = "err"
                     /\ s.result.cause = "net")
                      => (s.result.phase = r.pc
                          /\ s.result.err \in StepErrors(r.pc))]_vars

C11_witness ==
    \E a \in Attempts :
        /\ att[a].pc = "done"
        /\ att[a].result.err = "tunnel"
        /\ att[a].dst.proxy_intercepted = NoProxy
        /\ Cardinality(Hits(att[a].dst.uri)) = 2
        /\ Rules[1].proxy # Rules[2].proxy
        /\ att[a].via = Rules[1].proxy
        /\ att[a].evals = 1

\* C12: a call that has resolved holds either a connection handle or an error,
\* never both and never neither, and a call that has not resolved holds
\* nothing.  An error comes with no handle; in particular the elapse of the
\* timeout gives an error, and a handle from the TLS path of
\* connect_with_maybe_proxy with nodelay not configured exists only when
\* set_nodelay(false) succeeded: when it failed the call ends in its I/O error.
C12_handle_or_error ==
    \A a \in Attempts :
        LET r == att[a]
            res == r.result
        IN  /\ r.pc # "done" => res = NoResult
            /\ r.pc = "done"
                => /\ res.kind \in {"conn", "err"}
                   /\ res.kind = "conn"
                        => (res.err = "none" /\ res.inner \in {"tcp", "tls"}
                            /\ res.cause = "net")
                   /\ res.kind = "err"
                        => (res.err # "none" /\ res.inner = "none"
                            /\ res.peer = NoHost)
                   /\ res.cause \in {"timer", "conn_timer", "sync"}
                        => res.kind = "err"
                   /\ (res.kind = "conn" /\ res.inner = "tls"
                       /\ r.branch \in {"direct", "forward"}
                       /\ ~connector.service.nodelay)
                        => (r.sock.nodelay = FALSE /\ res.nodelay = FALSE)
                   /\ (r.tls_to = "uri" /\ r.sock.nodelay
                       /\ ~connector.service.nodelay)
                        => res.kind = "err"

C12_witness ==
    \E a \in Attempts :
        /\ att[a].pc = "done"
        /\ att[a].branch = "direct"
        /\ att[a].result.kind = "err"
        /\ att[a].result.err = "io"
        /\ att[a].result.phase = "tls"
        /\ att[a].sock.nodelay

\* C13: an intercepted https destination whose URI has no host ends in the
\* bad-host error and in no connection, whether the proxy is an HTTP-kind one
\* (CONNECT branch) or a SOCKS one (SOCKS branch); only the elapse of the
\* configured timeout may end the call otherwise.
C13_proxied_https_without_host_is_bad_host ==
    \A a \in Attempts :
        LET r == att[a]
        IN  (r.pc = "done" /\ Dispatched(r) /\ r.via # NoProxy
             /\ r.dst.uri.scheme = "https" /\ r.dst.uri.host = NoHost
             /\ r.result.cause # "timer")
            => (r.result.kind = "err" /\ r.result.err = "bad_host")

\* C14: the descriptor connected() returns carries TLS info only when the
\* handle's tls_info flag is true and the wrapped transport is a TLS stream:
\* with the flag false it carries none whatever the transport, and for a plain
\* TCP transport (direct http, plaintext proxy, plaintext SOCKS tunnel) it
\* carries none also when the connector was built with tls_info(true).
C14_tls_info_needs_flag_and_tls ==
    \A a \in Attempts :
        LET r == att[a]
            c == r.result
        IN  GotConn(r)
            => /\ connected(c).extra # NoTlsInfo
                    => (c.tls_info /\ c.inner = "tls")
               /\ ~c.tls_info => connected(c).extra = NoTlsInfo
               /\ c.inner = "tcp" => connected(c).extra = NoTlsInfo
               /\ ~connector.service.tls_info => connected(c).extra = NoTlsInfo

C14_witness ==
    \E a \in Attempts :
        /\ GotConn(att[a])
        /\ connector.service.tls_info
        /\ att[a].result.inner = "tcp"
        /\ att[a].result.tls_info
        /\ att[a].result.is_proxy
        /\ connected(att[a].result).extra = NoTlsInfo

\* the handle's TLS stream is a session with the origin
TlsToOrigin(r) ==
    GotConn(r) /\ r.result.inner = "tls"
    /\ (r.branch \in {"direct", "socks", "connect"})

\* C15: with tls_info set, a handle whose TLS stream is a session with the
\* origin in which the origin presented a certificate gives, from connected(),
\* TLS info holding the DER bytes of that certificate, on every path: direct
\* https, https over SOCKS, https over CONNECT through an http or https proxy.
C15_tls_info_is_peer_certificate ==
    \A a \in Attempts :
        LET r == att[a]
            c == r.result
        IN  (TlsToOrigin(r) /\ c.tls_info
             /\ c.session.peer_certificate # NoCert)
            => connected(c).extra = TlsInfo(to_der(c.session.peer_certificate))

C17_descriptor_proxy_is_flag ==
    [][\A a \in Attempts :
          LET r == att[a]
              s == att'[a]
          IN  /\ GotConn(r) => connected(r.result).proxy = r.result.is_proxy
              /\ GotConn(s) => connected(s.result).proxy = s.result.is_proxy
              /\ (GotConn(r) /\ GotConn(s))
                   => /\ s.result.is_proxy = r.result.is_proxy
                      /\ connected(s.result) = connected(r.result)]_vars

C17_witness ==
    \E a \in Attempts :
        /\ GotConn(att[a])
        /\ att[a].result.is_proxy
        /\ inner_connected(att[a].result).proxy = FALSE
        /\ connected(att[a].result).proxy
        /\ att[a].result.io.rd = MaxIo
        /\ att[a].result.io.shut

\* the attempt runs the direct-connect sequence (also after the URI was
\* overwritten with a proxy's) and its socket is connected
OnDirectSequence(r) ==
    r.branch \in {"direct", "forward"} /\ r.sock.peer # NoHost

\* C18: on the direct-connect sequence, with nodelay not configured and an
\* https effective destination the socket has nodelay enabled while the TLS
\* handshake runs and disabled again in every handle returned; with nodelay
\* configured, or a plaintext effective destination, the socket's nodelay is
\* the configured value from the connect on.
C18_nodelay_during_handshake ==
    \A a \in Attempts :
        LET r == att[a]
            configured == connector.service.nodelay
        IN  OnDirectSequence(r)
            => IF ~configured /\ r.uri.scheme = "https"
               THEN /\ r.pc = "tls" => r.sock.nodelay
                    /\ GotConn(r) => (r.result.nodelay = configured
                                      /\ r.sock.nodelay = configured)
               ELSE /\ r.sock.nodelay = configured
                    /\ GotConn(r) => r.result.nodelay = configured

C18_witness ==
    \E a \in Attempts :
        /\ GotConn(att[a])
        /\ att[a].branch = "direct"
        /\ att[a].result.inner = "tls"
        /\ ~connector.service.nodelay
        /\ att[a].http_nodelay
        /\ ~att[a].result.nodelay

\* C19: the connector has the direct shape exactly when no user layer is
\* configured and the layered shape exactly when there is at least one,
\* whatever form the layers argument of build() took (absent, present but
\* empty, present with layers); no step changes the connector afterwards.
C19_shape_follows_layer_count ==
    [][/\ connector.shape = "Simple" <=> Len(connector.layers) = 0
       /\ connector.shape = "WithLayers" <=> Len(connector.layers) >= 1
       /\ connector' = connector]_vars

\* C20: in the layered shape a request enters the user layers from the last
\* supplied to the first, L1 being the one around the base service, and
\* reaches the base service only after all of them; the configured timeout is
\* already running when Ln is entered, and an error that leaves the connector,
\* the timeout's elapse included, has passed the error normalization.
C20_layers_last_supplied_outermost ==
    \A a \in Attempts :
        LET r == att[a]
            n == Len(connector.layers)
        IN  /\ Len(r.seen) <= n
            /\ \A k \in 1..Len(r.seen) : r.seen[k] = n - k + 1
            /\ Dispatched(r) => Len(r.seen) = n
            /\ r.pc = "layer"
                 => (r.seen # <<>> /\ r.layer = r.seen[Len(r.seen)]
                     /\ ~Dispatched(r))
            /\ (Active(r) /\ connector.outer # NoTimer)
                 => r.tow_left = connector.outer - r.age
            /\ (r.pc = "done" /\ connector.shape = "WithLayers")
                 => /\ r.result.err # "Elapsed"
                    /\ r.result.cause = "timer" => r.result.err = "TimedOut"

C20_witness ==
    \E a \in Attempts :
        /\ Len(connector.layers) = 2
        /\ connector.layers = <<"pass", "delay">>
        /\ connector.outer # NoTimer
        /\ Dispatched(att[a])
        /\ att[a].seen = <<2, 1>>
        /\ att[a].age > 0

\* the answer of the latest readiness check, computed from what the layers did
Polled == ready.answer # "unpolled"
AllDelegate == \A i \in 1..Len(ready.layers) : ready.layers[i] = "delegate"
\* the outermost user layer that answered the latest check itself
Answering ==
    CHOOSE i \in 1..Len(ready.layers) :
        /\ ready.layers[i] # "delegate"
        /\ \A j \in (i + 1)..Len(ready.layers) : ready.layers[j] = "delegate"

\* C21 as stated: poll_ready of the connector answers ready in both shapes, in
\* every state, whatever user layers are installed.
C21_poll_ready_always_ready ==
    Polled => ready.answer = "ready"

\* C21, amended: poll_ready of the base service answers ready in every state,
\* and so does the connector in the direct shape; in the layered shape the
\* connector answers what the stack of user layers answers: ready when every
\* installed layer hands the check down to the service it wraps, otherwise the
\* answer of the outermost layer that answers itself (not ready, or its error).
\* No check changes the connector or an attempt in flight.
C21_poll_ready_is_the_layers_answer ==
    /\ ConnectorService_poll_ready = "ready"
    /\ Polled
        => /\ Len(ready.layers) = Len(connector.layers)
           /\ connector.shape = "Simple" => ready.answer = "ready"
           /\ AllDelegate => ready.answer = "ready"
           /\ ~AllDelegate => ready.answer = ready.layers[Answering]

C21_witness ==
    /\ connector.shape = "WithLayers"
    /\ Len(connector.layers) = 2
    /\ ready.layers = <<"pending", "delegate">>
    /\ ready.answer = "pending"
    /\ \E a \in Attempts : att[a].pc = "tls"

\* the timer the connector arms for an attempt still has what is left of the
\* configured T, counted from that attempt's own start
OwnTimer(r) ==
    (Active(r) /\ ConfiguredTimeout # NoTimer)
    => IF connector.shape = "Simple"
       THEN r.svc_left = ConfiguredTimeout - r.seq_age /\ r.tow_left = NoTimer
       ELSE r.tow_left = ConfiguredTimeout - r.age /\ r.svc_left = NoTimer

\* C22: two attempts of one connector, also for the same destination, run
\* independently under every interleaving: a step of one attempt (a step of its
\* connect sequence, its resolution, its timeout, its cancellation) leaves the
\* other attempt as it is, both change in one step only when time passes, and
\* the passing of time resolves neither; each attempt's timer runs from its own
\* start, and each resolves to a connection or an error of its own.
C22_attempts_independent ==
    /\ [](\A a \in Attempts :
            /\ OwnTimer(att[a])
            /\ att[a].pc = "done" => att[a].result.kind \in {"conn", "err"}
            /\ att[a].pc # "done" => att[a].result = NoResult)
    /\ [][\A a, b \in Attempts :
            (a # b /\ att'[a] # att[a])
            => \/ att'[b] = att[b]
               \/ /\ att'[a] = Elapse(att[a]) /\ att'[b] = Elapse(att[b])
                  /\ att'[a].pc = att[a].pc /\ att'[b].pc = att[b].pc]_vars

C22_witness ==
    /\ att[1].dst = att[2].dst
    /\ att[1].dst.uri.scheme = "https"
    /\ att[1].pc = "connect" /\ att[1].svc_left = 0
    /\ att[2].pc = "tls" /\ att[2].svc_left = 1

\* the nodelay setting of the transport connector an attempt uses: the
\* connector's, overridden for a TLS handshake of the direct-connect sequence
OwnNodelay(r) ==
    IF r.branch \in {"direct", "forward"} /\ ~connector.service.nodelay
       /\ r.uri.scheme = "https"
    THEN TRUE
    ELSE connector.service.http.nodelay

\* C23: no step of any attempt, in any interleaving, changes the connector:
\* its nodelay setting, timeout, proxy list and tls-info flag stay what build()
\* made them (the transport connector's nodelay and connect timeout still
\* those of the builder's setters).  The nodelay override is made on the
\* transport connector of the attempt, and the proxy's URI is written to the
\* attempt's own destination: the destination submitted and the other attempt
\* keep theirs.
C23_configuration_unchanged ==
    /\ [](/\ connector.service.http.nodelay = connector.service.nodelay
          /\ connector.service.http.connect_timeout = ConfiguredTimeout
          /\ \A a \in Attempts :
                (Dispatched(att[a]) /\ att[a].target # NoHost)
                => att[a].http_nodelay = OwnNodelay(att[a]))
    /\ [][/\ connector' = connector
          /\ \A a \in Attempts :
                (att[a].pc \notin {"idle", "done"} /\ att'[a].pc # "idle")
                => att'[a].dst = att[a].dst]_vars

C23_witness ==
    /\ ~connector.service.http.nodelay
    /\ att[1].pc = "tls" /\ att[1].branch = "direct" /\ att[1].http_nodelay
    /\ att[2].pc = "connect" /\ att[2].branch = "forward"
    /\ att[2].uri # att[2].dst.uri
    /\ ~att[2].http_nodelay

\* the call of the attempt resolved to the Timeout error
TimedOutCall(r) == r.result.cause = "timer"

\* C24: once the timeout has elapsed and the call has resolved to the Timeout
\* error, the attempt is over: its future owns no socket, is in no connect,
\* tunnel negotiation or TLS handshake and has no timer armed, and no later
\* step changes anything of it (its socket's options included) until the
\* caller makes a new call in its place.
C24_timed_out_attempt_is_dropped ==
    /\ [](\A a \in Attempts :
            TimedOutCall(att[a])
            => /\ att[a].pc = "done"
               /\ att[a].result.kind = "err"
               /\ att[a].result.err = "TimedOut"
               /\ ~att[a].open
               /\ att[a].addr_left = NoTimer /\ att[a].nap_left = NoTimer)
    /\ [][\A a \in Attempts :
            TimedOutCall(att[a])
            => \/ att'[a] = att[a]
               \/ att'[a] = connector_call(att'[a].dst)]_vars

C24_witness ==
    \E a \in Attempts :
        /\ TimedOutCall(att[a])
        /\ att[a].result.phase = "tls"
        /\ att[a].branch = "connect"
        /\ att[a].tunnelled = "ok"
        /\ att[a].sock.peer = att[a].via.host
        /\ ~att[a].open

\* the step is a call of setter op on the builder
Calls(op) == h2'.calls = h2.calls + 1 /\ h2'.last.op = op

\* C25: a call of initial_stream_window_size, initial_connection_window_size
\* or initial_max_send_streams with None leaves every field of the
\* configuration, adaptive_window included, as it was before the call.
C25_none_does_nothing ==
    [][\A op \in {"initial_stream_window_size", "initial_connection_window_size",
                  "initial_max_send_streams"} :
          (Calls(op) /\ h2'.last.arg = None) => h2'.builder = h2.builder]_vars

C25_witness ==
    /\ h2.last = [op |-> "initial_stream_window_size", arg |-> None]
    /\ h2.builder.config.adaptive_window
    /\ h2.builder.config.initial_stream_window_size = SPEC_WINDOW_SIZE
    /\ h2.calls = 2

\* the built configuration has adaptive flow control on and both window sizes
\* at the spec window size
AdaptiveBuilt ==
    /\ h2.builder.config.adaptive_window
    /\ h2.builder.config.initial_stream_window_size = SPEC_WINDOW_SIZE
    /\ h2.builder.config.initial_conn_window_size = SPEC_WINDOW_SIZE

\* C26 as stated: the built configuration of any sequence of builder calls that
\* contains adaptive_window(true) has adaptive flow control on and both window
\* sizes at the spec window size.
C26_adaptive_window_overrides_always ==
    (h2.built /\ h2.enabled) => AdaptiveBuilt

\* C26, amended: the built configuration of any sequence of builder calls in
\* which adaptive_window(true) is followed by no call of adaptive_window(false)
\* and no call of a window-size setter with Some(size) has adaptive flow control
\* on and both window sizes at the spec window size, whatever was passed to the
\* two size setters before it.
C26_adaptive_window_overrides_earlier ==
    (h2.built /\ h2.enabled /\ ~h2.later) => AdaptiveBuilt

C26_witness ==
    /\ h2.built /\ h2.enabled /\ ~h2.later
    /\ h2.sized
    /\ h2.calls = 2
    /\ AdaptiveBuilt

\* a usize above u32::MAX: one of its upper 32 bits is set
AboveU32Max(x) == x[1] > 0 \/ x[2] > 0

\* C27: max_send_buf_size(max) panics exactly when max is above u32::MAX, and
\* a builder that panicked takes no further call and is never built; for every
\* max up to u32::MAX the call stores max as the maximum send buffer size and
\* changes no other field of the configuration.
C27_max_send_buf_size_asserts_u32 ==
    /\ [](h2.builder.panicked => ~h2.built)
    /\ [][/\ h2.builder.panicked => h2' = h2
          /\ Calls("max_send_buf_size")
              => LET max == BufSizes[h2'.last.arg]
                 IN  /\ h2'.builder.panicked <=> AboveU32Max(max)
                     /\ ~AboveU32Max(max)
                         => h2'.builder.config =
                              [h2.builder.config EXCEPT
                                  !.max_send_buffer_size = max]
                     /\ AboveU32Max(max)
                         => h2'.builder.config = h2.builder.config
          /\ (h2'.builder.panicked /\ ~h2.builder.panicked)
              => Calls("max_send_buf_size")]_vars

C27_witness ==
    /\ h2.last.op = "max_send_buf_size"
    /\ BufSizes[h2.last.arg] = Usize(0, 1, 0, 0)
    /\ h2.builder.panicked
    /\ h2.calls = 2
    /\ h2.builder.config.max_send_buffer_size = U32Max

\* C28: an intercepted attempt takes the SOCKS branch exactly when the proxy's
\* URI scheme is socks4, socks4a, socks5 or socks5h.  A proxy of any other
\* scheme (http, https, an unknown one, none) takes the HTTP-proxy branches:
\* an https destination is tunnelled with CONNECT (TLS over the tunnel, not
\* proxy-form), any other destination is connected to the proxy in proxy-form
\* with the proxy's URI in place of its own.
C28_socks_branch_by_scheme ==
    \A a \in Attempts :
        LET r == att[a]
        IN  (Dispatched(r) /\ r.via # NoProxy)
            => /\ r.branch = "socks"
                    <=> r.via.scheme \in {"socks4", "socks4a", "socks5", "socks5h"}
               /\ r.branch # "socks"
                    => IF r.dst.uri.scheme = "https"
                       THEN /\ r.branch = "connect"
                            /\ GotConn(r) => (r.result.tunnel = "ok"
                                              /\ r.result.inner = "tls"
                                              /\ ~r.result.is_proxy)
                       ELSE /\ r.branch = "forward"
                            /\ r.uri = Uri(r.via.scheme, r.via.host)
                            /\ GotConn(r) => (r.result.tunnel = "no"
                                              /\ r.result.is_proxy)

C28_witness ==
    \E a \in Attempts :
        /\ GotConn(att[a])
        /\ att[a].via.scheme = "ftp"
        /\ att[a].dst.uri.scheme = "https"
        /\ att[a].branch = "connect"
        /\ att[a].result.tunnel = "ok"

\* the timeout given to the builder: connect_timeout() hands the same value to
\* the transport connector, where build() leaves it
BuilderTimeout == connector.service.http.connect_timeout
\* the result of the attempt is the one its connect sequence produced
FromSequence(r) ==
    /\ Dispatched(r)
    /\ r.result.cause \in {"net", "conn_timer", "sync"}
    /\ r.result.kind = "err"
        => r.result.err \in {"dns", "connect", "tunnel", "bad_host", "tls", "io"}
\* where the overall race of a call sits, and that there is one at most
OneRace ==
    /\ connector.shape = "Simple"
        => (connector.service.timeout = BuilderTimeout /\ connector.outer = NoTimer)
    /\ connector.shape = "WithLayers"
        => (connector.service.timeout = NoTimer /\ connector.outer = BuilderTimeout)
    /\ \A a \in Attempts :
          LET r == att[a]
          IN  /\ r.svc_left = NoTimer \/ r.tow_left = NoTimer
              /\ (Active(r) /\ BuilderTimeout # NoTimer)
                  => IF connector.shape = "Simple" THEN r.svc_left # NoTimer
                     ELSE r.tow_left # NoTimer
              /\ BuilderTimeout = NoTimer
                  => /\ r.svc_left = NoTimer /\ r.tow_left = NoTimer
                     /\ r.result.cause # "timer"

\* C29 as stated: one overall race per call, in the base service in the direct
\* shape and in the outer layer alone in the layered shape; with no timeout
\* configured no race in either shape, and the call's result is the result of
\* the connect sequence.
C29_one_race_result_of_sequence ==
    /\ OneRace
    /\ \A a \in Attempts :
          (BuilderTimeout = NoTimer /\ att[a].pc = "done")
          => FromSequence(att[a])

\* C29, amended: one overall race per call, in the base service in the direct
\* shape and in the outer layer alone in the layered shape; with no timeout
\* configured build() installs no race in either shape, and the call's result
\* is the result of the connect sequence in the direct shape and, in the
\* layered shape, whenever the user layers hand the request on to the base
\* service (the layers modelled hand its result back unchanged); a user layer
\* that answers the request itself decides the result.
C29_one_race_result_through_layers ==
    /\ OneRace
    /\ \A a \in Attempts :
          LET r == att[a]
          IN  (BuilderTimeout = NoTimer /\ r.pc = "done")
              => /\ (connector.shape = "Simple" \/ Dispatched(r))
                      => FromSequence(r)
                 /\ ~Dispatched(r)
                      => /\ r.seen # <<>>
                         /\ connector.layers[r.seen[Len(r.seen)]] = "fail"
                         /\ r.result.kind = "err" /\ r.result.err = "layer"

C29_witness ==
    \E a \in Attempts :
        /\ connector.shape = "WithLayers"
        /\ BuilderTimeout = 2
        /\ connector.service.timeout = NoTimer
        /\ att[a].pc = "tls"
        /\ att[a].tow_left = 1
        /\ att[a].svc_left = NoTimer

\* C30: with a connect timeout configured, when the clock advances and due
\* timers fire, every call resolves (to a connection, the Timeout error or
\* another error), whatever the resolver, the transport, the proxy and the TLS
\* peer do or fail to do, in every branch and in both shapes.
C30_every_call_resolves ==
    \A a \in Single :
        (Active(att[a]) /\ BuilderTimeout # NoTimer) ~> (att[a].pc = "done")

C30_witness ==
    \E a \in Attempts :
        /\ connector.shape = "WithLayers"
        /\ att[a].pc = "done"
        /\ att[a].result.err = "TimedOut"
        /\ att[a].result.phase = "tunnel"
        /\ att[a].branch = "socks"
        /\ att[a].age = BuilderTimeout

\* C31: in the CONNECT branch the missing-host check precedes all network
\* activity: an https destination without a host that reaches the branch is
\* failed with the bad-host error in the step that dispatched it, decided
\* without waiting, and the attempt never named a host to resolve, never had
\* an address or a socket, and never sent a CONNECT request.
C31_bad_host_before_network ==
    \A a \in Attempts :
        LET r == att[a]
        IN  (r.branch = "connect" /\ r.uri.host = NoHost)
            => /\ r.pc = "done"
               /\ r.result.kind = "err"
               /\ r.result.err = "bad_host"
               /\ r.result.cause = "sync"
               /\ r.result.phase \in {"idle", "layer"}
               /\ r.seq_age = 0
               /\ r.target = NoHost
               /\ r.naddrs = 0
               /\ r.sock = NoSock
               /\ ~r.open
               /\ r.tunnelled = "no"
               /\ r.session = NoSession

C31_witness ==
    \E a \in Attempts :
        /\ att[a].branch = "connect"
        /\ att[a].dst.uri = Uri("https", NoHost)
        /\ HttpKind(att[a].via)
        /\ att[a].via.host # NoHost
        /\ att[a].pc = "done"
        /\ att[a].result.err = "bad_host"
        /\ att[a].target = NoHost
        /\ att[a].tunnelled = "no"

\* C32: after any sequence of Http2ConfigBuilder calls starting from
\* Http2Config::builder(), a configuration whose adaptive_window is true has
\* both the initial stream window size and the initial connection window size
\* at the spec window size, before build() and in what build() returns; and a
\* call of either window-size setter with Some(size) leaves adaptive_window
\* false.
C32_adaptive_implies_spec_window ==
    /\ [](h2.builder.config.adaptive_window
            => /\ h2.builder.config.initial_stream_window_size = SPEC_WINDOW_SIZE
               /\ h2.builder.config.initial_conn_window_size = SPEC_WINDOW_SIZE)
    /\ [][\A op \in {"initial_stream_window_size",
                     "initial_connection_window_size"} :
            (Calls(op) /\ h2'.last.arg # None)
                => ~h2'.builder.config.adaptive_window]_vars

C32_witness ==
    /\ h2.last = [op |-> "initial_connection_window_size", arg |-> SPEC_WINDOW_SIZE]
    /\ h2.enabled /\ h2.later
    /\ h2.calls = 2
    /\ ~h2.builder.config.adaptive_window
    /\ h2.builder.config.initial_stream_window_size = SPEC_WINDOW_SIZE
    /\ h2.builder.config.initial_conn_window_size = SPEC_WINDOW_SIZE

\* C33: a layered connector whose user layers pass requests and responses
\* through unchanged and the direct connector built from the same
\* configuration are equivalent.  Whatever step one of them takes (a call with
\* any destination, any answer of the resolver, the transport, the proxy or
\* the TLS peer, the elapse of a timer), the other can take the same step and
\* be at the same point again: the same destination at the base dispatcher
\* (URI and pre-resolved interception), the same interception found, the same
\* branch, is_proxy flag, tls-info flag and result.
C33_layered_equals_direct ==
    /\ (twin.owed /\ ~InSync) => ENABLED Follow
    /\ (InSync /\ Dispatched(att[1]))
         => /\ att[1].dst = att[2].dst
            /\ att[1].uri = att[2].uri
            /\ att[1].via = att[2].via
            /\ att[1].branch = att[2].branch
            /\ att[1].is_proxy = att[2].is_proxy
            /\ att[1].result = att[2].result

C33_witness ==
    /\ InSync /\ ~twin.owed
    /\ Len(att[1].seen) = 2
    /\ att[1].pc = "done" /\ att[2].pc = "done"
    /\ att[1].result.err = "TimedOut"
    /\ att[1].result.phase = "tunnel"
    /\ att[1].tow_left = 0 /\ att[2].svc_left = 0

====
